---- MODULE Spec2Model ----
(***************************************************************************)
(* url-oracle: chained, identity-signed attestations of a URL's content.    *)
(*                                                                         *)
(* The repository holds several revisions of the attestation package, of   *)
(* the builder and of the verifier.  Each revision is modelled under the   *)
(* name it has in the source, with a suffix naming the file it comes from: *)
(*   (none)  src/attestation/attestation.go and the builder of part_002    *)
(*   _p5     src/unnamed/part_005 (payload with jwks and                   *)
(*           prev_attestation_digest), builder of part_001, verifier of    *)
(*           part_003                                                      *)
(*   _p6     src/unnamed/part_006 (payload with metadata), builder of      *)
(*           src/cmd/generate_attestation/main.go, verifier of             *)
(*           src/cmd/verify_attestation/main.go                            *)
(*                                                                         *)
(* Go values: a string is a sequence of one-character strings, a []byte a  *)
(* sequence of bytes (NilBytes for a nil slice), a pointer or an optional  *)
(* result a sequence of length 0 (nil, absent) or 1.                       *)
(*                                                                         *)
(* External capabilities are kept opaque: crypto/sha256 is collision free  *)
(* (Sum256 frames its input), OpenPubkey signs with the key bound to the   *)
(* identity token, and every attestation that parses carries a token.      *)
(***************************************************************************)
EXTENDS Integers, Sequences, FiniteSets, TLC

VARIABLES
    fs_out,      \* the attestation file (--attestation-file): <<>> or <<file>>
    fs_details,  \* previous_attestation_details.json in the working directory
    fs_prev,     \* previous_attestation.json in the working directory
    b,           \* outcome of the last build (generate_attestation)
    tampers,     \* the edits made to the persisted file since the build
    v,           \* outcome of the last verify run (verify_attestation)
    lk,          \* outcome of the last chain linker call
    cc,          \* outcome of the last CheckContentChanges call
    hp,          \* a pair of payloads and their digests (Hash)
    cp,          \* a call of CreateAttestationPayload and the payload it returned
    store        \* the attestations of a job's successful builds, oldest first

vars == <<fs_out, fs_details, fs_prev, b, tampers, v, lk, cc, hp, cp, store>>

----------------------------------------------------------------------------
(* Bounds of the model. *)

\* longest content, in bytes
MaxLen == 1
\* edits an outside party makes to the persisted attestation file
MaxTamper == 1
\* chain linker calls in a row in one working directory
MaxLinks == 2
\* builds of one job in a row
MaxBuilds == 3

----------------------------------------------------------------------------
(* Go and encoding/json primitives. *)

None == <<>>
Some(x) == <<x>>

Byte == {"0", "1"}
SeqsUpTo(S, n) == UNION {[1..k -> S] : k \in 0..n}
Contents == SeqsUpTo(Byte, MaxLen)

\* a nil []byte (encoding/json writes it as null, an empty slice as "")
NilBytes == <<"nil">>

\* bytes that are not valid UTF-8 on their own
InvalidBytes == {"xFE", "xFF"}

\* encoding/json, appendString: a byte that is not valid UTF-8 is written as the
\* escape ESC_FFFD (backslash ufffd); every other character of the model's alphabet is written as is
EncStr(s) == [i \in 1..Len(s) |-> IF s[i] \in InvalidBytes THEN "ESC_FFFD" ELSE s[i]]

\* encoding/json, unquote: the escape ESC_FFFD is read as the rune U+FFFD
DecStr(j) == [i \in 1..Len(j) |-> IF j[i] = "ESC_FFFD" THEN "uFFFD" ELSE j[i]]

\* encoding/base64 and encoding/hex: injective, and not every string decodes
B64(bs) == <<"b64(">> \o bs \o <<")">>
Hex(bs) == <<"hex(">> \o bs \o <<")">>

\* crypto/sha256.Sum256, collision free
Sum256(data) == <<"sha256(">> \o data \o <<")">>

\* json.Marshal of one struct field, by the field's Go type
Encode(kind, x) ==
    CASE kind = "string"  -> <<"\"">> \o EncStr(x) \o <<"\"">>
      [] kind = "bytes"   -> IF x = NilBytes THEN <<"null">>
                             ELSE <<"\"">> \o B64(x) \o <<"\"">>
      [] kind = "int"     -> <<ToString(x)>>
      [] kind = "details" -> IF x = None THEN <<"null">>
                             ELSE <<"{", "digest", ":", "\"">> \o EncStr(x[1].digest)
                                  \o <<"\"", ",", "artifact_url", ":", "\"">>
                                  \o EncStr(x[1].artifact_url) \o <<"\"", "}">>
      [] kind = "map"     -> IF x = None THEN <<"null">>
                             ELSE <<"{", "repository", ":", "\"">> \o EncStr(x[1])
                                  \o <<"\"", "}">>

\* json.Marshal of a struct: its fields in declaration order, each under its
\* json tag.  fields[i] = <<json tag, Go type, field of the model's record>>
RECURSIVE MarshalFrom(_, _, _)
MarshalFrom(ap, fields, i) ==
    IF i > Len(fields) THEN <<>>
    ELSE (IF i = 1 THEN <<>> ELSE <<",">>)
         \o <<fields[i][1], ":">> \o Encode(fields[i][2], ap[fields[i][3]])
         \o MarshalFrom(ap, fields, i + 1)

Marshal(ap, fields) == <<"{">> \o MarshalFrom(ap, fields, 1) \o <<"}">>

----------------------------------------------------------------------------
(* The attestation payload and its digest. *)

\* AttestationPayload of attestation.go
PayloadFields ==
    << <<"commit_sha", "string", "commit_sha">>,
       <<"timestamp", "string", "timestamp">>,
       <<"url", "string", "url">>,
       <<"content", "bytes", "content">>,
       <<"content_digest", "string", "content_digest">>,
       <<"content_size", "int", "content_size">>,
       <<"previous_attestation", "details", "previous_attestation">> >>

\* AttestationPayload of part_005
PayloadFields_p5 ==
    << <<"commit_sha", "string", "commit_sha">>,
       <<"timestamp", "string", "timestamp">>,
       <<"url", "string", "url">>,
       <<"content", "bytes", "content">>,
       <<"content_digest", "bytes", "content_digest">>,
       <<"content_size", "int", "content_size">>,
       <<"jwks", "bytes", "jwks">>,
       <<"prev_attestation_digest", "bytes", "prev_attestation_digest">> >>

\* AttestationPayload of part_006
PayloadFields_p6_mut_nocontent ==
    << <<"commit_sha", "string", "commit_sha">>,
       <<"timestamp", "string", "timestamp">>,
       <<"url", "string", "url">>,
       <<"content_hash", "string", "content_digest">>,
       <<"content_size", "int", "content_size">>,
       <<"metadata", "map", "metadata">> >>

PayloadFields_p6 ==
    << <<"commit_sha", "string", "commit_sha">>,
       <<"timestamp", "string", "timestamp">>,
       <<"url", "string", "url">>,
       <<"content", "string", "content">>,
       <<"content_hash", "string", "content_digest">>,
       <<"content_size", "int", "content_size">>,
       <<"metadata", "map", "metadata">> >>

\* (ap *AttestationPayload) Hash: sha256 of json.Marshal(ap)
Hash(ap) == Sum256(Marshal(ap, PayloadFields))
Hash_p5(ap) == Sum256(Marshal(ap, PayloadFields_p5))
Hash_p6(ap) == Sum256(Marshal(ap, PayloadFields_p6))

\* Hash on a nil *AttestationPayload: json.Marshal writes null
HashNil == Sum256(<<"null">>)

\* One record type carries the fields of all three revisions; a revision's
\* code reads and writes its own fields and leaves the others at their zero.
Payload(commitSHA, timestamp, url, content, contentDigest, contentSize, previousAttestation, jwks, prevDigest, metadata) ==
    [commit_sha |-> commitSHA, timestamp |-> timestamp, url |-> url,
     content |-> content, content_digest |-> contentDigest,
     content_size |-> contentSize, previous_attestation |-> previousAttestation,
     jwks |-> jwks, prev_attestation_digest |-> prevDigest, metadata |-> metadata]

\* AttestationDetails
Details(digest, artifactURL) == [digest |-> digest, artifact_url |-> artifactURL]

\* CreateAttestationPayload of attestation.go: the fields as given
CreateAttestationPayload_mut_nolink(timestamp, commitSHA, previousAttestation, url, content, contentDigest, contentSize) ==
    Payload(commitSHA, timestamp, url, content, contentDigest, contentSize,
            None, NilBytes, NilBytes, None)

CreateAttestationPayload(timestamp, commitSHA, previousAttestation, url, content, contentDigest, contentSize) ==
    Payload(commitSHA, timestamp, url, content, contentDigest, contentSize,
            previousAttestation, NilBytes, NilBytes, None)

\* CreateAttestationPayload of part_005: fetches the JWKS from the issuer (jwks
\* is what GetJWKSContent returned: <<>> for an error) and links to the digest
\* of prevAttestation's payload.  <<>> is the error return.
CreateAttestationPayload_p5(prevAttestation, commitSHA, timestamp, url, content, contentDigest, contentSize, jwks) ==
    IF jwks = None THEN None
    ELSE Some(Payload(commitSHA, timestamp, url, content, contentDigest, contentSize,
                      None, jwks[1],
                      IF prevAttestation = None THEN NilBytes
                      ELSE Hash_p5(prevAttestation[1].payload),
                      None))

\* CreateAttestationPayload of part_006: the metadata names the repository of
\* the environment (GITHUB_REPOSITORY) the function runs in
CreateAttestationPayload_p6(commitSHA, timestamp, url, content, contentHash, contentSize, envRepo) ==
    Payload(commitSHA, timestamp, url, content, contentHash, contentSize,
            None, NilBytes, NilBytes, Some(envRepo))

\* DownloadContent: resp is the HTTP exchange, <<>> when the request fails, the
\* status is not 200 or the body cannot be read, else <<body>>
DownloadContent(resp) ==
    IF resp = None THEN None
    ELSE Some([content |-> resp[1],
               digest |-> <<"sha256:">> \o Hex(Sum256(resp[1])),
               size |-> Len(resp[1])])

\* DownloadContent of part_005: the digest as raw bytes
DownloadContent_p5(resp) ==
    IF resp = None THEN None
    ELSE Some([content |-> resp[1], digest |-> Sum256(resp[1]), size |-> Len(resp[1])])

\* DownloadContent of part_006: the digest in hex; main passes the content on
\* as base64 text
DownloadContent_p6(resp) ==
    IF resp = None THEN None
    ELSE Some([content |-> resp[1], digest |-> Hex(Sum256(resp[1])), size |-> Len(resp[1])])

\* the digest of content as DownloadContent of a revision writes it
DigestOf(rev, content) ==
    IF rev = "cur" THEN DownloadContent(Some(content))[1].digest
    ELSE IF rev = "p5" THEN DownloadContent_p5(Some(content))[1].digest
    ELSE DownloadContent_p6(Some(content))[1].digest

----------------------------------------------------------------------------
(* The identity token and the signature (OpenPubkey, opaque). *)

\* the issuer the provider of providers.NewGithubOp stands for
githubIssuer == "https://token.actions.githubusercontent.com"

PKToken(claims, key, iss) == [claims |-> claims, key |-> key, iss |-> iss]

TokenClaims(sha, iat, ref, jref) ==
    [job_workflow_sha |-> sha, iat |-> iat, workflow_ref |-> ref, job_workflow_ref |-> jref]

\* pkToken.NewSignedMessage(msg, signer): signed with the key bound to pkToken
NewSignedMessage(pkToken, msg) == [msg |-> msg, key |-> pkToken.key]

\* pkToken.VerifySignedMessage(sig): the message, or <<>> with an error when the
\* signature is not one of the token's key
VerifySignedMessage(pkToken, sig) ==
    IF sig.key = pkToken.key THEN Some(sig.msg) ELSE None

\* pktVerifier.VerifyPKToken: the token is one of the expected issuer, and the
\* issuer's keys still confirm it (opOK: they may have rotated or be out of reach)
VerifyPKToken(pkToken, opOK) == pkToken.iss = githubIssuer /\ opOK

\* time.Unix(iat, 0).UTC().Format(time.RFC3339), for iat within January 1970
TwoDigits(n) == <<ToString(n \div 10), ToString(n % 10)>>
RFC3339(iat) ==
    <<"1970-01-">> \o TwoDigits(1 + (iat \div 86400)) \o <<"T">>
    \o TwoDigits((iat \div 3600) % 24) \o <<":">> \o TwoDigits((iat \div 60) % 60)
    \o <<":">> \o TwoDigits(iat % 60) \o <<"Z">>

\* ExtractClaimsFromIDToken without the check of iat
ExtractClaimsFromIDToken_mut_noiat(pkToken) ==
    IF pkToken.claims = None THEN None
    ELSE LET c == pkToken.claims[1] IN
         IF c.job_workflow_sha = <<>> THEN None
         ELSE IF c.workflow_ref = <<>> THEN None
         ELSE Some([JobWorkflowSHA |-> c.job_workflow_sha, IAT |-> c.iat,
                    WorkflowRef |-> c.workflow_ref, Timestamp |-> RFC3339(c.iat)])

\* ExtractClaimsFromIDToken: <<>> is the error return.  A claim the token does
\* not carry is read as the zero value of its type.
ExtractClaimsFromIDToken(pkToken) ==
    IF pkToken.claims = None THEN None
    ELSE LET c == pkToken.claims[1] IN
         IF c.job_workflow_sha = <<>> THEN None
         ELSE IF c.iat = 0 THEN None
         ELSE IF c.workflow_ref = <<>> THEN None
         ELSE Some([JobWorkflowSHA |-> c.job_workflow_sha, IAT |-> c.iat,
                    WorkflowRef |-> c.workflow_ref, Timestamp |-> RFC3339(c.iat)])

----------------------------------------------------------------------------
(* Files of the working directory. *)

\* a file that holds no JSON (empty, cut short, or something else)
Garbage == [ok |-> FALSE]

\* previous_attestation_details.json as the script writes it
DetailsFile(digest, artifactURL) ==
    [ok |-> TRUE, digest |-> digest, artifact_url |-> artifactURL]

\* LoadAttestationDetails: <<>> is the error return (no file, or no JSON)
LoadAttestationDetails(file) ==
    IF file = None THEN None
    ELSE IF ~file[1].ok THEN None
    ELSE Some(Details(DecStr(file[1].digest), DecStr(file[1].artifact_url)))

\* base64 text back to bytes: <<>> is the error return (not base64)
IsB64(text) == Len(text) >= 2 /\ text[1] = "b64(" /\ text[Len(text)] = ")"
UnB64(text) == SubSeq(text, 2, Len(text) - 1)

\* a []byte as json.Marshal writes it, read into a string field: its base64
\* text, and the empty string for null
BytesAsText(bs) == IF bs = NilBytes THEN <<>> ELSE B64(bs)

\* saveAttestation, json.MarshalIndent of an Attestation: the file holds the
\* payload's fields under the json tags of the revision that writes it (rev),
\* the strings as JSON writes them; token and signature are kept as OpenPubkey
\* encodes them
AttestationFile(att, rev) ==
    [ok |-> TRUE, rev |-> rev,
     payload |-> [att.payload EXCEPT !.commit_sha = EncStr(@),
                                     !.timestamp = EncStr(@),
                                     !.url = EncStr(@)],
     pk_token |-> att.pk_token,
     signature |-> att.signature]

Loaded(payload, file) ==
    Some([payload |-> payload, pk_token |-> file.pk_token, signature |-> file.signature])

\* LoadAttestation of attestation.go: <<>> is the error return (no file, no
\* JSON, or a value that does not fit the field's type).  A []byte field reads
\* base64 text, a string field reads a []byte written by another revision as
\* its base64 text, and a key the struct does not have is skipped.
LoadAttestation(f) ==
    IF f = None THEN None
    ELSE IF ~f[1].ok THEN None
    ELSE LET file == f[1]
             p == file.payload
         IN
         IF file.rev = "p6" /\ ~IsB64(p.content) THEN None
         ELSE Loaded(Payload(DecStr(p.commit_sha), DecStr(p.timestamp), DecStr(p.url),
                             IF file.rev = "p6" THEN UnB64(p.content) ELSE p.content,
                             CASE file.rev = "cur" -> DecStr(p.content_digest)
                               [] file.rev = "p5" -> BytesAsText(p.content_digest)
                               [] file.rev = "p6" -> <<>>,
                             p.content_size,
                             IF file.rev = "cur" THEN p.previous_attestation ELSE None,
                             NilBytes, NilBytes, None),
                     file)

\* LoadAttestation of part_005
LoadAttestation_p5(f) ==
    IF f = None THEN None
    ELSE IF ~f[1].ok THEN None
    ELSE LET file == f[1]
             p == file.payload
         IN
         IF file.rev = "p6" /\ ~IsB64(p.content) THEN None
         ELSE IF file.rev = "cur" /\ ~IsB64(p.content_digest) THEN None
         ELSE Loaded(Payload(DecStr(p.commit_sha), DecStr(p.timestamp), DecStr(p.url),
                             IF file.rev = "p6" THEN UnB64(p.content) ELSE p.content,
                             CASE file.rev = "cur" -> UnB64(p.content_digest)
                               [] file.rev = "p5" -> p.content_digest
                               [] file.rev = "p6" -> NilBytes,
                             p.content_size, None,
                             IF file.rev = "p5" THEN p.jwks ELSE NilBytes,
                             IF file.rev = "p5" THEN p.prev_attestation_digest ELSE NilBytes,
                             None),
                     file)

\* LoadAttestation of part_006
LoadAttestation_p6(f) ==
    IF f = None THEN None
    ELSE IF ~f[1].ok THEN None
    ELSE LET file == f[1]
             p == file.payload
         IN
         Loaded(Payload(DecStr(p.commit_sha), DecStr(p.timestamp), DecStr(p.url),
                        IF file.rev = "p6" THEN DecStr(p.content)
                        ELSE BytesAsText(p.content),
                        IF file.rev = "p6" THEN DecStr(p.content_digest) ELSE <<>>,
                        p.content_size, None, NilBytes, NilBytes,
                        IF file.rev = "p6" THEN p.metadata ELSE None),
                file)

----------------------------------------------------------------------------
(* scripts/download_attestation.sh *)

NoVerifyFlag == <<"--no-verify">>

\* Where a run of the script goes, as the artifact store, the network and the
\* checkout decide:
\*   runlist_fail       gh run list fails                       (lines 70-83)
\*   no_run             no successful run                       (lines 85-88)
\*   artifact_api_fail  gh api .../artifacts fails, set -e      (lines 93-101)
\*   no_artifact        the run has no artifact of the name     (lines 103-106)
\*   download_fail      gh api .../zip fails, set -e            (lines 113-117)
\*   unzip_fail         unzip fails, set -e                     (line 121)
\*   jq_fail            the extracted file is no JSON, set -e   (line 125)
\*   clone_fail         git clone fails, set -e                 (line 143)
\*   commit_missing     the attested commit is not in the clone (lines 146-159)
\*   verify_failed      go run verify_attestation exits non-zero (lines 163-169)
\*   verify_ok          go run verify_attestation exits 0
ScriptPaths ==
    {"runlist_fail", "no_run", "artifact_api_fail", "no_artifact", "download_fail",
     "unzip_fail", "jq_fail", "clone_fail", "commit_missing", "verify_failed",
     "verify_ok"}

\* exit status of the command that fails under set -e: gh 1, unzip 9 (no zip
\* file), jq 2 (input is no JSON), git 128
SetEStatus(path) ==
    CASE path \in {"artifact_api_fail", "download_fail"} -> 1
      [] path = "unzip_fail" -> 9
      [] path = "jq_fail" -> 2
      [] path = "clone_fail" -> 128

\* One run of the script on args, in a working directory that holds details
\* and prev; e.path is where the run goes, e.art the artifact the store returns
\* ([digest, id, file]).  The result is the exit status and the two files.
download_attestation(args, e, details, prev) ==
    LET ARGS == SelectSeq(args, LAMBDA a : a # NoVerifyFlag)
        VERIFY == \A i \in 1..Len(args) : args[i] # NoVerifyFlag
        ARTIFACT_URL == <<"/repos/">> \o ARGS[2] \o <<"/actions/artifacts/">>
                        \o e.art.id \o <<"/zip">>
        R(exit, d, p) == [exit |-> exit, details |-> d, prev |-> p]
        downloaded == Some(e.art.file)
        written == Some(DetailsFile(e.art.digest, ARTIFACT_URL))
    IN
    IF Len(ARGS) < 3 \/ Len(ARGS) > 4 THEN R(1, details, prev)
    ELSE IF e.path = "runlist_fail" THEN R(1, details, prev)
    ELSE IF e.path = "no_run" THEN R(2, details, prev)
    ELSE IF e.path = "artifact_api_fail" THEN R(SetEStatus(e.path), details, prev)
    ELSE IF e.path = "no_artifact" THEN R(2, details, prev)
    ELSE IF e.path = "download_fail" THEN R(SetEStatus(e.path), details, prev)
    ELSE IF e.path = "unzip_fail" THEN R(SetEStatus(e.path), details, Some(Garbage))
    ELSE IF e.path = "jq_fail" THEN R(SetEStatus(e.path), details, Some(Garbage))
    ELSE IF ~VERIFY THEN R(0, details, downloaded)
    ELSE IF e.path = "clone_fail" THEN R(SetEStatus(e.path), details, downloaded)
    ELSE IF e.path = "commit_missing" THEN R(0, details, downloaded)
    ELSE IF e.path = "verify_failed" THEN R(1, written, downloaded)
    ELSE R(0, written, downloaded)

----------------------------------------------------------------------------
(* The chain linker. *)

\* strings.Split(s, sep) for a separator of one character
RECURSIVE Split(_, _)
Split(s, sep) ==
    IF \A i \in 1..Len(s) : s[i] # sep THEN <<s>>
    ELSE LET i == CHOOSE k \in 1..Len(s) :
                      s[k] = sep /\ \A j \in 1..(k - 1) : s[j] # sep
         IN <<SubSeq(s, 1, i - 1)>> \o Split(SubSeq(s, i + 1, Len(s)), sep)

\* What a linker call returns (found, err) and what it did: whether it ran the
\* script (ran), with which arguments, how the script ended (exit; -1 when it
\* did not end: not run, or bash could not be started) and the two files after.
LinkResult(found, err, ran, args, exit, details, prev) ==
    [found |-> found, err |-> err, ran |-> ran, args |-> args, exit |-> exit,
     details |-> details, prev |-> prev]

\* exitErr.ExitCode() == 2: the script's word for "nothing to link to"
IsNotFoundExit_mut_anyfailure(code) == code # 0

IsNotFoundExit(code) == code = 2

\* fetchPreviousAttestationDetails of part_002.  e.start: bash can be started.

fetchPreviousAttestationDetails(claims, attestationFileName, e, details, prev) ==
    LET parts == Split(claims.WorkflowRef, "@")
        failed == LinkResult(None, TRUE, FALSE, <<>>, -1, details, prev)
        \* lines 57-78: cmd.Run has returned
        Ran(args, run) ==
            IF IsNotFoundExit(run.exit)
            THEN LinkResult(None, FALSE, TRUE, args, run.exit, run.details, run.prev)
            ELSE IF run.exit # 0
            THEN LinkResult(None, TRUE, TRUE, args, run.exit, run.details, run.prev)
            ELSE IF run.details # None
            THEN LET loaded == LoadAttestationDetails(run.details) IN
                 IF loaded = None
                 THEN LinkResult(None, TRUE, TRUE, args, run.exit, run.details, run.prev)
                 ELSE LinkResult(loaded, FALSE, TRUE, args, run.exit, run.details, run.prev)
            ELSE LinkResult(None, TRUE, TRUE, args, run.exit, run.details, run.prev)
        \* lines 50-57: the script is called
        Call(args) ==
            IF ~e.start THEN LinkResult(None, TRUE, TRUE, args, -1, details, prev)
            ELSE Ran(args, download_attestation(args, e, details, prev))
    IN
    IF Len(parts) < 2 THEN failed
    ELSE
    LET workflowPath == parts[1]
        branchRef == parts[2]
        pathParts == Split(workflowPath, "/")
    IN
    IF Len(pathParts) # 5 THEN failed
    ELSE
    LET owner == pathParts[1]
        repo == pathParts[2]
        workflowFile == pathParts[5]
        repoFull == owner \o <<"/">> \o repo
        refParts == Split(branchRef, "/")
    IN
    IF Len(refParts) # 3 THEN failed
    ELSE
    LET branch == refParts[3] IN
    Call(<<attestationFileName, repoFull, workflowFile, branch>>)

\* fetchPreviousAttestation of part_001: the same lookup, with the script
\* called without the file name, and the whole previous attestation loaded from
\* previous_attestation.json
fetchPreviousAttestation_p5(workflowRef, e, details, prev) ==
    LET parts == Split(workflowRef, "@")
        failed == LinkResult(None, TRUE, FALSE, <<>>, -1, details, prev)
        \* lines 57-78: cmd.Run has returned
        Ran(args, run) ==
            IF IsNotFoundExit(run.exit)
            THEN LinkResult(None, FALSE, TRUE, args, run.exit, run.details, run.prev)
            ELSE IF run.exit # 0
            THEN LinkResult(None, TRUE, TRUE, args, run.exit, run.details, run.prev)
            ELSE IF run.prev # None
            THEN LET loaded == LoadAttestation_p5(run.prev) IN
                 IF loaded = None
                 THEN LinkResult(None, TRUE, TRUE, args, run.exit, run.details, run.prev)
                 ELSE LinkResult(loaded, FALSE, TRUE, args, run.exit, run.details, run.prev)
            ELSE LinkResult(None, TRUE, TRUE, args, run.exit, run.details, run.prev)
        \* lines 49-57: the script is called
        Call(args) ==
            IF ~e.start THEN LinkResult(None, TRUE, TRUE, args, -1, details, prev)
            ELSE Ran(args, download_attestation(args, e, details, prev))
    IN
    IF Len(parts) < 2 THEN failed
    ELSE
    LET workflowPath == parts[1]
        branchRef == parts[2]
        pathParts == Split(workflowPath, "/")
    IN
    IF Len(pathParts) # 5 THEN failed
    ELSE
    LET owner == pathParts[1]
        repo == pathParts[2]
        workflowFile == pathParts[5]
        repoFull == owner \o <<"/">> \o repo
        refParts == Split(branchRef, "/")
    IN
    IF Len(refParts) # 3 THEN failed
    ELSE
    LET branch == refParts[3] IN
    Call(<<repoFull, workflowFile, branch>>)

----------------------------------------------------------------------------
(* Change detection. *)

\* (changed, err) as CheckContentChanges returns them
Changed(changed) == [changed |-> changed, err |-> FALSE]

\* CheckContentChanges of attestation.go; file is what the path names, <<>>
\* when there is no such file
CheckContentChanges_mut_failclosed(currentDigest, previousAttestationFile, file) ==
    IF previousAttestationFile = <<>> THEN Changed(TRUE)
    ELSE IF LoadAttestation(file) = None THEN Changed(FALSE)
    ELSE IF LoadAttestation(file)[1].payload.content_digest # currentDigest
    THEN Changed(FALSE)
    ELSE Changed(TRUE)

CheckContentChanges(currentDigest, previousAttestationFile, file) ==
    IF previousAttestationFile = <<>> THEN Changed(TRUE)
    ELSE IF LoadAttestation(file) = None THEN Changed(TRUE)
    ELSE IF LoadAttestation(file)[1].payload.content_digest # currentDigest
    THEN Changed(FALSE)
    ELSE Changed(TRUE)

\* CheckContentChanges of part_005
CheckContentChanges_p5(currentHash, previousAttestationFile, file) ==
    IF previousAttestationFile = <<>> THEN Changed(TRUE)
    ELSE IF LoadAttestation_p5(file) = None THEN Changed(TRUE)
    ELSE IF LoadAttestation_p5(file)[1].payload.content_digest = currentHash
    THEN Changed(FALSE)
    ELSE Changed(TRUE)

----------------------------------------------------------------------------
(* The builder, cmd/generate_attestation. *)

\* What one build run meets outside the program:
\*   resp   the HTTP exchange with the URL (<<>>: it fails)
\*   auth   the identity token opkClient.Auth returns (<<>>: client.New or Auth fails)
\*   sign   NewSignedMessage succeeds
\*   run    the chain linker's script run (start, path, art)
\*   jwks   the issuer's key set as GetJWKSContent returns it (<<>>: it fails)
\*   save   MkdirAll and WriteFile succeed
World(resp, auth, sign, run, jwks, save) ==
    [resp |-> resp, auth |-> auth, sign |-> sign, run |-> run, jwks |-> jwks, save |-> save]

\* What createAttestation returns (att: <<>> is the error return) and what it
\* did on the way: stage is the step it ended at, link how the chain linker
\* ended ("skipped", "error", "notfound", "found", or "none" when it was not
\* reached), found what the linker returned, the two files are the working
\* directory after it
Built(att, stage, link, found, details, prev) ==
    [att |-> att, stage |-> stage, link |-> link, found |-> found,
     details |-> details, prev |-> prev]

LinkKind(r) == IF r.err THEN "error" ELSE IF r.found = None THEN "notfound" ELSE "found"

\* createAttestation of part_002
createAttestation_mut_dropserror(attestationFileName, url, content, contentDigest, contentSize, skipPrevious, w, details, prev) ==
    IF w.auth = None THEN Built(None, "auth", "none", None, details, prev)
    ELSE IF ExtractClaimsFromIDToken(w.auth[1]) = None
    THEN Built(None, "claims", "none", None, details, prev)
    ELSE
    LET claims == ExtractClaimsFromIDToken(w.auth[1])[1]
        Signed(payload, fetched, kind) ==
            IF ~w.sign
            THEN Built(None, "sign", kind, fetched.found, fetched.details, fetched.prev)
            ELSE Built(Some([payload |-> payload, pk_token |-> w.auth[1],
                             signature |-> NewSignedMessage(w.auth[1], Hash(payload))]),
                       "done", kind, fetched.found, fetched.details, fetched.prev)
        Fetched(fetched) ==
            Signed(CreateAttestationPayload(claims.Timestamp, claims.JobWorkflowSHA,
                                            fetched.found, url, content,
                                            contentDigest, contentSize),
                   fetched, IF skipPrevious THEN "skipped" ELSE LinkKind(fetched))
    IN
    IF skipPrevious
    THEN Fetched(LinkResult(None, FALSE, FALSE, <<>>, -1, details, prev))
    ELSE Fetched(fetchPreviousAttestationDetails(claims, attestationFileName,
                                                 w.run, details, prev))

createAttestation(attestationFileName, url, content, contentDigest, contentSize, skipPrevious, w, details, prev) ==
    IF w.auth = None THEN Built(None, "auth", "none", None, details, prev)
    ELSE
    LET pkToken == w.auth[1]
        extracted == ExtractClaimsFromIDToken(pkToken)
    IN
    IF extracted = None THEN Built(None, "claims", "none", None, details, prev)
    ELSE
    LET claims == extracted[1]
        \* lines 171-190: the payload is digested and signed
        Signed(payload, fetched, kind) ==
            IF ~w.sign
            THEN Built(None, "sign", kind, fetched.found, fetched.details, fetched.prev)
            ELSE Built(Some([payload |-> payload, pk_token |-> pkToken,
                             signature |-> NewSignedMessage(pkToken, Hash(payload))]),
                       "done", kind, fetched.found, fetched.details, fetched.prev)
        \* lines 158-169: the linker has returned
        Linked(fetched, kind) ==
            IF fetched.err
            THEN Built(None, "link", kind, None, fetched.details, fetched.prev)
            ELSE Signed(CreateAttestationPayload(claims.Timestamp, claims.JobWorkflowSHA,
                                                 fetched.found, url, content,
                                                 contentDigest, contentSize),
                        fetched, kind)
        \* the linker's result, as the rest names it
        Fetched(fetched) == Linked(fetched, IF skipPrevious THEN "skipped" ELSE LinkKind(fetched))
    IN
    IF skipPrevious
    THEN Fetched(LinkResult(None, FALSE, FALSE, <<>>, -1, details, prev))
    ELSE Fetched(fetchPreviousAttestationDetails(claims, attestationFileName,
                                                 w.run, details, prev))

\* generateOpenPubkeyAttestation of part_001
generateOpenPubkeyAttestation_p5(url, content, contentHash, contentSize, w, details, prev) ==
    IF w.auth = None THEN Built(None, "auth", "none", None, details, prev)
    ELSE
    LET pkToken == w.auth[1]
        extracted == ExtractClaimsFromIDToken(pkToken)
    IN
    IF extracted = None THEN Built(None, "claims", "none", None, details, prev)
    ELSE
    LET claims == extracted[1]
        \* lines 157-183: the payload is digested and signed
        Signed(created, fetched, kind) ==
            IF created = None
            THEN Built(None, "payload", kind, fetched.found, fetched.details, fetched.prev)
            ELSE IF ~w.sign
            THEN Built(None, "sign", kind, fetched.found, fetched.details, fetched.prev)
            ELSE Built(Some([payload |-> created[1], pk_token |-> pkToken,
                             signature |-> NewSignedMessage(pkToken, Hash_p5(created[1]))]),
                       "done", kind, fetched.found, fetched.details, fetched.prev)
        \* lines 150-160: the linker has returned
        Linked(fetched, kind) ==
            IF fetched.err
            THEN Built(None, "link", kind, None, fetched.details, fetched.prev)
            ELSE Signed(CreateAttestationPayload_p5(fetched.found, claims.JobWorkflowSHA,
                                                    claims.Timestamp, url, content,
                                                    contentHash, contentSize, w.jwks),
                        fetched, kind)
        Fetched(fetched) == Linked(fetched, LinkKind(fetched))
    IN
    Fetched(fetchPreviousAttestation_p5(claims.WorkflowRef, w.run, details, prev))

\* generateOpenPubkeyAttestation of cmd/generate_attestation/main.go
generateOpenPubkeyAttestation_p6(payload, w, details, prev) ==
    IF w.auth = None THEN Built(None, "auth", "none", None, details, prev)
    ELSE IF ~w.sign THEN Built(None, "sign", "none", None, details, prev)
    ELSE Built(Some([payload |-> payload, pk_token |-> w.auth[1],
                     signature |-> NewSignedMessage(w.auth[1], Hash_p6(payload))]),
               "done", "none", None, details, prev)

\* s[:8], the slice main prints: it panics on a string shorter than 8
ShortSHALen == 8
CanSlice(s) == Len(s) >= ShortSHALen

\* How a run of main ends
Ended_mut_truncates(rev, stage, exit, out, r) ==
    [rev |-> rev, stage |-> stage, exit |-> exit,
     out |-> IF exit = 1 THEN None ELSE out, att |-> r.att,
     link |-> r.link, found |-> r.found, details |-> r.details, prev |-> r.prev]

\* How a run of main ends: the step it ended at, the exit status (2 is the Go
\* runtime's status for a panic), the attestation file after it, and what the
\* build did
Ended(rev, stage, exit, out, r) ==
    [rev |-> rev, stage |-> stage, exit |-> exit, out |-> out, att |-> r.att,
     link |-> r.link, found |-> r.found, details |-> r.details, prev |-> r.prev]

\* main of part_002.  hasEnv: both ACTIONS_ID_TOKEN_REQUEST_* are set; out,
\* details, prev: the three files before the run.
generate_main(hasEnv, attestationFile, url, skipPrevious, w, out, details, prev) ==
    LET untouched == Built(None, "none", "none", None, details, prev) IN
    IF ~hasEnv THEN Ended("cur", "env", 1, out, untouched)
    ELSE IF attestationFile = <<>> \/ url = <<>> THEN Ended("cur", "flags", 1, out, untouched)
    ELSE
    LET downloaded == DownloadContent(w.resp) IN
    IF downloaded = None THEN Ended("cur", "download", 1, out, untouched)
    ELSE
    LET \* lines 115-127: createAttestation has returned
        Created(token) ==
            IF token.att = None THEN Ended("cur", token.stage, 1, out, token)
            ELSE IF ~w.save THEN Ended("cur", "save", 1, out, token)
            ELSE LET saved == Some(AttestationFile(token.att[1], "cur")) IN
                 IF CanSlice(token.att[1].payload.commit_sha)
                 THEN Ended("cur", "done", 0, saved, token)
                 ELSE Ended("cur", "panic", 2, saved, token)
    IN
    Created(createAttestation(attestationFile, url, downloaded[1].content,
                              downloaded[1].digest, downloaded[1].size,
                              skipPrevious, w, details, prev))

\* main of part_001
generate_main_p5(hasEnv, attestationFile, url, w, out, details, prev) ==
    LET untouched == Built(None, "none", "none", None, details, prev) IN
    IF ~hasEnv THEN Ended("p5", "env", 1, out, untouched)
    ELSE IF attestationFile = <<>> \/ url = <<>> THEN Ended("p5", "flags", 1, out, untouched)
    ELSE
    LET downloaded == DownloadContent_p5(w.resp) IN
    IF downloaded = None THEN Ended("p5", "download", 1, out, untouched)
    ELSE
    LET \* lines 112-124: generateOpenPubkeyAttestation has returned
        Created(token) ==
            IF token.att = None THEN Ended("p5", token.stage, 1, out, token)
            ELSE IF ~w.save THEN Ended("p5", "save", 1, out, token)
            ELSE LET saved == Some(AttestationFile(token.att[1], "p5")) IN
                 IF CanSlice(token.att[1].payload.commit_sha)
                 THEN Ended("p5", "done", 0, saved, token)
                 ELSE Ended("p5", "panic", 2, saved, token)
    IN
    Created(generateOpenPubkeyAttestation_p5(url, downloaded[1].content,
                                             downloaded[1].digest,
                                             downloaded[1].size, w, details, prev))

\* main of cmd/generate_attestation/main.go: commit SHA and timestamp are flags;
\* envRepo is GITHUB_REPOSITORY
generate_main_p6(hasEnv, commitSHA, timestamp, attestationFile, url, envRepo, w, out, details, prev) ==
    LET untouched == Built(None, "none", "none", None, details, prev) IN
    IF ~hasEnv THEN Ended("p6", "env", 1, out, untouched)
    ELSE IF commitSHA = <<>> \/ timestamp = <<>> \/ attestationFile = <<>> \/ url = <<>>
    THEN Ended("p6", "flags", 1, out, untouched)
    ELSE
    LET downloaded == DownloadContent_p6(w.resp) IN
    IF downloaded = None THEN Ended("p6", "download", 1, out, untouched)
    ELSE
    LET contentStr == B64(downloaded[1].content)
        payload == CreateAttestationPayload_p6(commitSHA, timestamp, url, contentStr,
                                               downloaded[1].digest,
                                               downloaded[1].size, envRepo)
        token == generateOpenPubkeyAttestation_p6(payload, w, details, prev)
    IN
    IF token.att = None THEN Ended("p6", token.stage, 1, out, token)
    ELSE IF ~w.save THEN Ended("p6", "save", 1, out, token)
    ELSE LET saved == Some(AttestationFile(token.att[1], "p6")) IN
         IF CanSlice(commitSHA) THEN Ended("p6", "done", 0, saved, token)
         ELSE Ended("p6", "panic", 2, saved, token)

----------------------------------------------------------------------------
(* The verifier, cmd/verify_attestation. *)

\* the one workflow verifyWorkflowRef of part_003 accepts
expectedWorkflowRef ==
    <<"kipz", "/", "url-oracle", "/", ".github", "/", "workflows", "/",
      "create-attestation.yml", "@", "refs", "/", "heads", "/", "main">>

\* (ok, err) of a check that can itself fail
Checked(ok, err) == [ok |-> ok, err |-> err]

\* verifyWorkflowRef of part_003: the token's job_workflow_ref against the
\* expected workflow; an error when the token's payload is no JSON
verifyWorkflowRef(pkToken) ==
    IF pkToken.claims = None THEN Checked(FALSE, TRUE)
    ELSE Checked(pkToken.claims[1].job_workflow_ref = expectedWorkflowRef, FALSE)

\* verifyWorkflowSHA of part_003
verifyWorkflowSHA_mut_always(pkToken, expectedCommitSHA) ==
    IF pkToken.claims = None THEN Checked(FALSE, TRUE)
    ELSE Checked(TRUE, FALSE)

verifyWorkflowSHA(pkToken, expectedCommitSHA) ==
    IF pkToken.claims = None THEN Checked(FALSE, TRUE)
    ELSE Checked(pkToken.claims[1].job_workflow_sha = expectedCommitSHA, FALSE)

\* verifyCommitSHA
verifyCommitSHA_mut_always(attestationCommitSHA, currentCommitSHA) ==
    Checked(TRUE, FALSE)

verifyCommitSHA(attestationCommitSHA, currentCommitSHA) ==
    Checked(attestationCommitSHA = currentCommitSHA, FALSE)

\* verifyOracle: envRepo is GITHUB_REPOSITORY; remote is what git remote
\* get-url origin gives when that is empty (<<>>: git fails), already cut down
\* to owner/repo (the empty string for a URL that is not one of github.com)
verifyOracle_mut_always(attestationMetadata, envRepo, remote) ==
    IF envRepo = <<>> /\ remote = None THEN Checked(FALSE, TRUE)
    ELSE Checked(TRUE, FALSE)

verifyOracle(attestationMetadata, envRepo, remote) ==
    IF envRepo = <<>> /\ remote = None THEN Checked(FALSE, TRUE)
    ELSE LET currentRepo == IF envRepo = <<>> THEN remote[1] ELSE envRepo IN
         IF currentRepo = <<>> THEN Checked(FALSE, TRUE)
         ELSE IF attestationMetadata = None THEN Checked(FALSE, TRUE)
         ELSE Checked(attestationMetadata[1] = currentRepo, FALSE)

\* the entry a check appends to result.Errors, if any
ErrorOf(check, failedMsg, mismatchMsg) ==
    IF check.err THEN <<failedMsg>> ELSE IF check.ok THEN <<>> ELSE <<mismatchMsg>>

\* VerifyAttestation of part_003 from the loaded attestation on (lines 47-115)
Checks_p5(attestation, opOK, jwks) ==
    LET tokenOK == VerifyPKToken(attestation.pk_token, opOK)
        verified == VerifySignedMessage(attestation.pk_token, attestation.signature)
        msg == IF verified = None THEN NilBytes ELSE verified[1]
        hash == Hash_p5(attestation.payload)
        toverify == CreateAttestationPayload_p5(Some(attestation),
                        attestation.payload.commit_sha, attestation.payload.timestamp,
                        attestation.payload.url, attestation.payload.content,
                        attestation.payload.content_digest,
                        attestation.payload.content_size, jwks)
        hashToVerify == IF toverify = None THEN HashNil ELSE Hash_p5(toverify[1])
        workflowRef == verifyWorkflowRef(attestation.pk_token)
        workflowSHA == verifyWorkflowSHA(attestation.pk_token,
                                         attestation.payload.commit_sha)
    IN
    [PKTokenVerified |-> tokenOK,
     SignedMessageVerified |-> verified # None,
     PayloadHashVerified |-> msg = hash,
     ProgramHashVerified |-> msg = hashToVerify,
     WorkflowRefVerified |-> ~workflowRef.err /\ workflowRef.ok,
     WorkflowSHAVerified |-> ~workflowSHA.err /\ workflowSHA.ok,
     Errors |->
        (IF tokenOK THEN <<>> ELSE <<"PK Token verification failed">>)
        \o (IF verified # None THEN <<>> ELSE <<"Signed message verification failed">>)
        \o (IF msg = hash THEN <<>>
            ELSE <<"Attestation payload hash does not match signed message">>)
        \o (IF toverify = None THEN <<"Failed to create attestation payload">> ELSE <<>>)
        \o (IF msg = hashToVerify THEN <<>>
            ELSE <<"Program generated hash does not match signed message">>)
        \o ErrorOf(workflowRef, "Workflow reference verification failed",
                   "PK token workflow reference does not match expected workflow")
        \o ErrorOf(workflowSHA, "Workflow SHA verification failed",
                   "PK token workflow SHA does not match commit SHA")]

\* VerifyAttestation of cmd/verify_attestation/main.go from the loaded
\* attestation on (lines 116-180)
Checks_p6(attestation, currentCommitSHA, opOK, envRepo, remote) ==
    LET tokenOK == VerifyPKToken(attestation.pk_token, opOK)
        verified == VerifySignedMessage(attestation.pk_token, attestation.signature)
        msg == IF verified = None THEN NilBytes ELSE verified[1]
        hash == Hash_p6(attestation.payload)
        toverify == CreateAttestationPayload_p6(
                        attestation.payload.commit_sha, attestation.payload.timestamp,
                        attestation.payload.url, attestation.payload.content,
                        attestation.payload.content_digest,
                        attestation.payload.content_size, envRepo)
        hashToVerify == Hash_p6(toverify)
        commitSHA == verifyCommitSHA(attestation.payload.commit_sha, currentCommitSHA)
        oracle == verifyOracle(attestation.payload.metadata, envRepo, remote)
    IN
    [PKTokenVerified |-> tokenOK,
     SignedMessageVerified |-> verified # None,
     PayloadHashVerified |-> msg = hash,
     ProgramHashVerified |-> msg = hashToVerify,
     CommitSHAVerified |-> ~commitSHA.err /\ commitSHA.ok,
     OracleVerified |-> ~oracle.err /\ oracle.ok,
     Errors |->
        (IF tokenOK THEN <<>> ELSE <<"PK Token verification failed">>)
        \o (IF verified # None THEN <<>> ELSE <<"Signed message verification failed">>)
        \o (IF msg = hash THEN <<>>
            ELSE <<"Attestation payload hash does not match signed message">>)
        \o (IF msg = hashToVerify THEN <<>>
            ELSE <<"Program generated hash does not match signed message">>)
        \o ErrorOf(commitSHA, "Commit SHA verification failed",
                   "Commit SHA does not match current repository")
        \o ErrorOf(oracle, "Oracle verification failed",
                   "Attestation was not created by this oracle")]

\* VerifyAttestation of part_003: <<>> is the error return
VerifyAttestation_p5_mut_shortcircuit(f, opOK, jwks) ==
    IF LoadAttestation_p5(f) = None THEN None
    ELSE IF ~VerifyPKToken(LoadAttestation_p5(f)[1].pk_token, opOK) THEN None
    ELSE Some(Checks_p5(LoadAttestation_p5(f)[1], opOK, jwks))

VerifyAttestation_p5(f, opOK, jwks) ==
    IF LoadAttestation_p5(f) = None THEN None
    ELSE Some(Checks_p5(LoadAttestation_p5(f)[1], opOK, jwks))

\* VerifyAttestation that compares the message of a signature it could not
\* verify
VerifyAttestation_p6_mut_keepsmsg(f, currentCommitSHA, opOK, envRepo, remote) ==
    LET Compared(att, checks) ==
            [checks EXCEPT !.PayloadHashVerified = att.signature.msg = Hash_p6(att.payload)]
    IN
    IF LoadAttestation_p6(f) = None THEN None
    ELSE Some(Compared(LoadAttestation_p6(f)[1],
                       Checks_p6(LoadAttestation_p6(f)[1], currentCommitSHA, opOK,
                                 envRepo, remote)))

\* VerifyAttestation of cmd/verify_attestation/main.go
VerifyAttestation_p6(f, currentCommitSHA, opOK, envRepo, remote) ==
    IF LoadAttestation_p6(f) = None THEN None
    ELSE Some(Checks_p6(LoadAttestation_p6(f)[1], currentCommitSHA, opOK, envRepo, remote))

\* IsVerificationSuccessful of part_003
IsVerificationSuccessful_p5(vr) ==
    /\ vr.PKTokenVerified /\ vr.SignedMessageVerified /\ vr.PayloadHashVerified
    /\ vr.ProgramHashVerified /\ vr.WorkflowRefVerified /\ vr.WorkflowSHAVerified

\* IsVerificationSuccessful of cmd/verify_attestation/main.go
IsVerificationSuccessful_p6_mut_nooracle(vr) ==
    /\ vr.PKTokenVerified /\ vr.SignedMessageVerified /\ vr.PayloadHashVerified
    /\ vr.ProgramHashVerified /\ vr.CommitSHAVerified

IsVerificationSuccessful_p6(vr) ==
    /\ vr.PKTokenVerified /\ vr.SignedMessageVerified /\ vr.PayloadHashVerified
    /\ vr.ProgramHashVerified /\ vr.CommitSHAVerified /\ vr.OracleVerified

\* GetSummary: the lines of the summary
GetSummary_p5(vr) ==
    IF IsVerificationSuccessful_p5(vr)
    THEN <<"All verification steps passed successfully">>
    ELSE <<"Verification failed:">> \o vr.Errors

GetSummary_p6(vr) ==
    IF IsVerificationSuccessful_p6(vr)
    THEN <<"All verification steps passed successfully">>
    ELSE <<"Verification failed:">> \o vr.Errors

\* How a run of the verifier's main ends: called is whether VerifyAttestation
\* was called, result what it returned (<<>>: not called, or an error), stdout
\* the lines printed before the exit, in order
Verdict(rev, called, result, summary, exit, stdout) ==
    [rev |-> rev, called |-> called, result |-> result, summary |-> summary,
     exit |-> exit, stdout |-> stdout]

\* the lines of the table main prints, one for a field of the result each
ResultLines_p5 ==
    <<"PK Token", "Signed Message", "Payload Digest", "Oracle Digest",
      "Workflow Reference", "Workflow SHA">>

ResultLines_p6 ==
    <<"PK Token", "Signed Message", "Payload Hash", "Program Hash", "Commit SHA",
      "Workflow Reference", "Workflow SHA">>

\* main of cmd/verify_attestation/main.go (lines 9-58) over the
\* VerifyAttestation of part_003
verify_main_p5(attestationFile, hasEnv, f, opOK, jwks) ==
    IF attestationFile = <<>>
    THEN Verdict("p5", FALSE, None, <<>>, 1, <<"Error: attestation-file flag is required">>)
    ELSE IF ~hasEnv
    THEN Verdict("p5", FALSE, None, <<>>, 1, <<"Error: Missing environment">>)
    ELSE LET Reported(result) ==
                 IF result = None
                 THEN Verdict("p5", TRUE, None, <<>>, 1,
                              <<"Loading attestation...", "Error during verification">>)
                 ELSE Verdict("p5", TRUE, result, GetSummary_p5(result[1]),
                              IF IsVerificationSuccessful_p5(result[1]) THEN 0 ELSE 1,
                              <<"Loading attestation...", "Verification Results:">>
                              \o ResultLines_p5 \o <<"">> \o GetSummary_p5(result[1]))
         IN Reported(VerifyAttestation_p5(f, opOK, jwks))

\* main of part_002 (lines 223-279) over the VerifyAttestation of
\* cmd/verify_attestation/main.go
verify_main_p6_mut_exitsearly(attestationFile, commitSHA, hasEnv, f, opOK, envRepo, remote) ==
    IF attestationFile = <<>>
    THEN Verdict("p6", FALSE, None, <<>>, 1, <<"Error: attestation-file flag is required">>)
    ELSE IF commitSHA = <<>>
    THEN Verdict("p6", FALSE, None, <<>>, 1, <<"Error: commit-sha flag is required">>)
    ELSE IF ~hasEnv
    THEN Verdict("p6", FALSE, None, <<>>, 1, <<"Error: Missing environment">>)
    ELSE LET Reported(result) ==
                 IF result = None
                 THEN Verdict("p6", TRUE, None, <<>>, 1,
                              <<"Loading attestation...", "Error during verification">>)
                 ELSE IF ~IsVerificationSuccessful_p6(result[1])
                 THEN Verdict("p6", TRUE, result, GetSummary_p6(result[1]), 1,
                              <<"Loading attestation...", "Verification Results:">>
                              \o ResultLines_p6)
                 ELSE Verdict("p6", TRUE, result, GetSummary_p6(result[1]), 0,
                              <<"Loading attestation...", "Verification Results:">>
                              \o ResultLines_p6 \o <<"">> \o GetSummary_p6(result[1])
                              \o <<"Attestation verified successfully">>)
         IN Reported(VerifyAttestation_p6(f, commitSHA, opOK, envRepo, remote))

verify_main_p6(attestationFile, commitSHA, hasEnv, f, opOK, envRepo, remote) ==
    IF attestationFile = <<>>
    THEN Verdict("p6", FALSE, None, <<>>, 1, <<"Error: attestation-file flag is required">>)
    ELSE IF commitSHA = <<>>
    THEN Verdict("p6", FALSE, None, <<>>, 1, <<"Error: commit-sha flag is required">>)
    ELSE IF ~hasEnv
    THEN Verdict("p6", FALSE, None, <<>>, 1, <<"Error: Missing environment">>)
    ELSE LET Reported(result) ==
                 IF result = None
                 THEN Verdict("p6", TRUE, None, <<>>, 1,
                              <<"Loading attestation...", "Error during verification">>)
                 ELSE Verdict("p6", TRUE, result, GetSummary_p6(result[1]),
                              IF IsVerificationSuccessful_p6(result[1]) THEN 0 ELSE 1,
                              <<"Loading attestation...", "Verification Results:">>
                              \o ResultLines_p6 \o <<"">> \o GetSummary_p6(result[1])
                              \o <<IF IsVerificationSuccessful_p6(result[1])
                                    THEN "Attestation verified successfully"
                                    ELSE "Attestation verification failed">>)
         IN Reported(VerifyAttestation_p6(f, commitSHA, opOK, envRepo, remote))

----------------------------------------------------------------------------
(* The values the runs are given. *)

SHA_FULL == <<"a", "b", "c", "1", "2", "3", "d", "4">>
SHA_SHORT == <<"a", "b", "c", "1", "2", "3">>

REF_FORK ==
    <<"evil", "/", "fork", "/", ".github", "/", "workflows", "/", "x.yml", "@",
      "refs", "/", "heads", "/", "main">>
REF_NOAT == <<"kipz", "/", "url-oracle">>

REPO_MAIN == <<"kipz", "/", "url-oracle">>
REPO_FORK == <<"evil", "/", "fork">>

tokMain ==
    PKToken(Some(TokenClaims(SHA_FULL, 1, expectedWorkflowRef, expectedWorkflowRef)),
            "k1", githubIssuer)
tokShort ==
    PKToken(Some(TokenClaims(SHA_SHORT, 61, expectedWorkflowRef, REF_FORK)),
            "k2", githubIssuer)
tokNoAt ==
    PKToken(Some(TokenClaims(SHA_FULL, 1, REF_NOAT, expectedWorkflowRef)),
            "k3", githubIssuer)
tokNoIat ==
    PKToken(Some(TokenClaims(SHA_FULL, 0, expectedWorkflowRef, expectedWorkflowRef)),
            "k4", githubIssuer)
tokForeign ==
    PKToken(Some(TokenClaims(SHA_FULL, 1, expectedWorkflowRef, expectedWorkflowRef)),
            "k5", "https://accounts.example.com")

\* with them: a token whose payload is no JSON, one without job_workflow_sha,
\* one without workflow_ref
AuthTokens ==
    {tokMain, tokShort, tokNoAt, tokNoIat,
     PKToken(None, "k6", githubIssuer),
     PKToken(Some(TokenClaims(<<>>, 1, expectedWorkflowRef, expectedWorkflowRef)),
             "k7", githubIssuer),
     PKToken(Some(TokenClaims(SHA_FULL, 1, <<>>, expectedWorkflowRef)), "k8", githubIssuer)}

URL_A == <<"https://example.com/", "a">>
URL_FE == <<"https://example.com/", "xFE">>
URL_FF == <<"https://example.com/", "xFF">>
Urls == {URL_A, URL_FE}

OutName == <<"attestation.json">>
TS_FLAG == <<"2025-01-01T00:00:00Z">>

JWKS_1 == <<"jwks1">>
JWKS_2 == <<"jwks2">>

\* two attestations of earlier runs, as the artifact store holds them
StoredPayload == CreateAttestationPayload(RFC3339(1), SHA_FULL, None, URL_A, <<"0">>, DownloadContent(Some(<<"0">>))[1].digest, 1)
StoredPayload_p5 == CreateAttestationPayload_p5(None, SHA_FULL, RFC3339(1), URL_A, <<"0">>, Sum256(<<"0">>), 1, Some(JWKS_1))[1]

Artifact(digest, id, file) == [digest |-> digest, id |-> id, file |-> file]

Art1 ==
    Artifact(<<"sha256:", "d1">>, <<"101">>,
             AttestationFile([payload |-> StoredPayload, pk_token |-> tokMain,
                              signature |-> NewSignedMessage(tokMain, Hash(StoredPayload))],
                             "cur"))
Art2 ==
    Artifact(<<"sha256:", "d2">>, <<"102">>,
             AttestationFile([payload |-> StoredPayload_p5, pk_token |-> tokMain,
                              signature |-> NewSignedMessage(tokMain, Hash_p5(StoredPayload_p5))],
                             "p5"))
Artifacts == {Art1, Art2}

\* a details file an earlier run left in the working directory
StaleDetails == DetailsFile(<<"sha256:", "d0">>, <<"/repos/", "old", "/zip">>)

ScriptRun(start, path, art) == [start |-> start, path |-> path, art |-> art]

Runs ==
    {ScriptRun(FALSE, "verify_ok", Art1)}
    \cup {ScriptRun(TRUE, path, art) : path \in ScriptPaths, art \in Artifacts}

\* the worlds a build with chain linking can meet, without the ones that differ
\* only in what the run never gets to
Worlds(jwksSet) ==
    {World(None, None, TRUE, ScriptRun(FALSE, "verify_ok", Art1), None, TRUE)}
    \cup {World(Some(c), None, TRUE, ScriptRun(FALSE, "verify_ok", Art1), None, TRUE) :
            c \in Contents}
    \cup {World(Some(c), Some(t), sign, run, jwks, sign /\ save) :
            c \in Contents, t \in AuthTokens, sign \in BOOLEAN, run \in Runs,
            jwks \in jwksSet, save \in BOOLEAN}

\* the worlds of a build without chain linking
Worlds_p6 ==
    {World(None, None, TRUE, ScriptRun(FALSE, "verify_ok", Art1), None, TRUE)}
    \cup {World(Some(c), None, TRUE, ScriptRun(FALSE, "verify_ok", Art1), None, TRUE) :
            c \in Contents}
    \cup {World(Some(c), Some(t), sign, ScriptRun(FALSE, "verify_ok", Art1), None, sign /\ save) :
            c \in Contents, t \in {tokMain, tokShort}, sign \in BOOLEAN, save \in BOOLEAN}

----------------------------------------------------------------------------
(* Build, tamper, verify. *)

Init ==
    /\ fs_out = None
    /\ fs_details \in {None, Some(StaleDetails)}
    /\ fs_prev = None
    /\ b = None
    /\ tampers = <<>>
    /\ store = <<>>
    /\ v = None
    /\ lk = None
    /\ cc = None
    /\ hp = None
    /\ cp = None

\* the state after a run of a builder's main, with the identity token the
\* provider handed out in it (auth; <<>> when none was)
AfterBuild(auth, r) ==
    /\ fs_out' = r.out
    /\ fs_details' = r.details
    /\ fs_prev' = r.prev
    /\ b' = Some([rev |-> r.rev, stage |-> r.stage, exit |-> r.exit, att |-> r.att,
                  link |-> r.link, found |-> r.found, auth |-> auth])
    /\ UNCHANGED <<tampers, v, lk, cc, hp, cp, store>>

\* one run of generate_attestation, part_002
Build ==
    /\ b = None
    /\ \E hasEnv \in BOOLEAN :
         IF ~hasEnv
         THEN AfterBuild(None, generate_main(FALSE, OutName, URL_A, FALSE,
                                       CHOOSE w \in Worlds({None}) : w.resp = None,
                                       fs_out, fs_details, fs_prev))
         ELSE \E attestationFile \in {<<>>, OutName} :
                IF attestationFile = <<>>
                THEN AfterBuild(None, generate_main(TRUE, <<>>, URL_A, FALSE,
                                              CHOOSE w \in Worlds({None}) : w.resp = None,
                                              fs_out, fs_details, fs_prev))
                ELSE \E url \in Urls, skipPrevious \in BOOLEAN, w \in Worlds({None}) :
                       AfterBuild(w.auth, generate_main(TRUE, attestationFile, url, skipPrevious,
                                                w, fs_out, fs_details, fs_prev))

\* one run of generate_attestation, part_001
Build_p5 ==
    /\ b = None
    /\ \E hasEnv \in BOOLEAN :
         IF ~hasEnv
         THEN AfterBuild(None, generate_main_p5(FALSE, OutName, URL_A,
                                          CHOOSE w \in Worlds({None}) : w.resp = None,
                                          fs_out, fs_details, fs_prev))
         ELSE \E url \in Urls, w \in Worlds({None, Some(JWKS_1)}) :
                AfterBuild(w.auth, generate_main_p5(TRUE, OutName, url, w,
                                            fs_out, fs_details, fs_prev))

\* one run of generate_attestation, cmd/generate_attestation/main.go
Build_p6 ==
    /\ b = None
    /\ \E hasEnv \in BOOLEAN :
         IF ~hasEnv
         THEN AfterBuild(None, generate_main_p6(FALSE, SHA_FULL, TS_FLAG, OutName, URL_A,
                                          REPO_MAIN,
                                          CHOOSE w \in Worlds_p6 : w.resp = None,
                                          fs_out, fs_details, fs_prev))
         ELSE \E commitSHA \in {<<>>, SHA_FULL, SHA_SHORT}, url \in Urls,
                 envRepo \in {REPO_MAIN, <<>>}, w \in Worlds_p6 :
                AfterBuild(w.auth, generate_main_p6(TRUE, commitSHA, TS_FLAG, OutName, url,
                                            envRepo, w, fs_out, fs_details, fs_prev))

\* An outside party edits the persisted file; it stays an attestation file.
CanTamper ==
    /\ b # None
    /\ v = None
    /\ Len(tampers) < MaxTamper
    /\ fs_out # None
    /\ fs_out[1].ok

Tampered(kind, file) ==
    /\ fs_out' = Some(file)
    /\ tampers' = Append(tampers, kind)
    /\ UNCHANGED <<fs_details, fs_prev, b, v, lk, cc, hp, cp, store>>

\* the bytes of the content field: all of a []byte, the inside of base64 text
ContentBytes(file) ==
    IF file.rev = "p6" THEN 2..(Len(file.payload.content) - 1)
    ELSE 1..Len(file.payload.content)

\* one byte of the content field is changed
TamperContent ==
    /\ CanTamper
    /\ \E i \in ContentBytes(fs_out[1]), c \in Byte :
         /\ c # fs_out[1].payload.content[i]
         /\ Tampered("content", [fs_out[1] EXCEPT !.payload.content[i] = c])

\* the commit SHA is replaced
TamperCommit ==
    /\ CanTamper
    /\ \E sha \in {SHA_FULL, SHA_SHORT} :
         /\ sha # fs_out[1].payload.commit_sha
         /\ Tampered("commit_sha", [fs_out[1] EXCEPT !.payload.commit_sha = sha])

\* the signature is replaced by one of another key over the same message
TamperSignature ==
    /\ CanTamper
    /\ Tampered("signature", [fs_out[1] EXCEPT !.signature.key = "k9"])

\* the token is replaced by the token of another identity
TamperToken ==
    /\ CanTamper
    /\ \E t \in {tokMain, tokShort, tokForeign} :
         /\ t # fs_out[1].pk_token
         /\ Tampered("pk_token", [fs_out[1] EXCEPT !.pk_token = t])

\* the file is cut short: no JSON any more
Corrupt ==
    /\ CanTamper
    /\ Tampered("corrupt", Garbage)

\* the digest of the payload of a file as the verifier of the file's revision
\* loads and hashes it
HashOfFile(file) ==
    IF file.rev = "p5" THEN Hash_p5(LoadAttestation_p5(Some(file))[1].payload)
    ELSE Hash_p6(LoadAttestation_p6(Some(file))[1].payload)

\* the holder of the token's key writes another content digest or content size
\* into the payload and signs the payload again (files of the revisions that
\* have a verifier)
Resign ==
    /\ CanTamper
    /\ fs_out[1].rev \in {"p5", "p6"}
    /\ \E c \in Contents, size \in 0..MaxLen :
         LET Signed(file) ==
                 /\ file # fs_out[1]
                 /\ Tampered("resign",
                             [file EXCEPT !.signature =
                                 NewSignedMessage(file.pk_token, HashOfFile(file))])
         IN Signed([fs_out[1] EXCEPT !.payload.content_digest = DigestOf(fs_out[1].rev, c),
                                     !.payload.content_size = size])

\* the state after a run of a verifier's main: what it was given (cfg) and how
\* it ended; workflowRef is EXPECTED_WORKFLOW_REF as main reads it, of which
\* the VerifyAttestation of part_003 takes no notice
Config(commitSHA, opOK, jwks, envRepo, remote, workflowRef) ==
    [commitSHA |-> commitSHA, opOK |-> opOK, jwks |-> jwks, envRepo |-> envRepo,
     remote |-> remote, workflowRef |-> workflowRef]

AfterVerify(verdict, cfg) ==
    /\ v' = Some([rev |-> verdict.rev, called |-> verdict.called,
                  result |-> verdict.result, summary |-> verdict.summary,
                  exit |-> verdict.exit, stdout |-> verdict.stdout, cfg |-> cfg])
    /\ UNCHANGED <<fs_out, fs_details, fs_prev, b, tampers, lk, cc, hp, cp, store>>

\* one run of verify_attestation, part_003
Verify_p5 ==
    /\ b # None
    /\ v = None
    /\ \E attestationFile \in {<<>>, OutName}, hasEnv \in BOOLEAN :
         IF attestationFile = <<>> \/ ~hasEnv
         THEN AfterVerify(verify_main_p5(attestationFile, hasEnv, fs_out, TRUE, None),
                          Config(<<>>, TRUE, None, <<>>, None, <<>>))
         ELSE \E opOK \in BOOLEAN, jwks \in {None, Some(JWKS_1), Some(JWKS_2)},
                 workflowRef \in {<<>>, REF_FORK} :
                AfterVerify(verify_main_p5(attestationFile, hasEnv, fs_out, opOK, jwks),
                            Config(<<>>, opOK, jwks, <<>>, None, workflowRef))

\* one run of verify_attestation, cmd/verify_attestation/main.go
Verify_p6 ==
    /\ b # None
    /\ v = None
    /\ \E attestationFile \in {<<>>, OutName}, hasEnv \in BOOLEAN :
         IF attestationFile = <<>> \/ ~hasEnv
         THEN AfterVerify(verify_main_p6(attestationFile, SHA_FULL, hasEnv, fs_out, TRUE,
                                         REPO_MAIN, None),
                          Config(SHA_FULL, TRUE, None, REPO_MAIN, None, <<>>))
         ELSE \E commitSHA \in {<<>>, SHA_FULL, SHA_SHORT}, opOK \in BOOLEAN,
                 envRepo \in {REPO_MAIN, REPO_FORK, <<>>} :
                IF envRepo # <<>>
                THEN AfterVerify(verify_main_p6(attestationFile, commitSHA, hasEnv, fs_out,
                                                opOK, envRepo, None),
                                 Config(commitSHA, opOK, None, envRepo, None, <<>>))
                ELSE \E remote \in {None, Some(REPO_MAIN), Some(<<>>)} :
                       AfterVerify(verify_main_p6(attestationFile, commitSHA, hasEnv,
                                                  fs_out, opOK, envRepo, remote),
                                   Config(commitSHA, opOK, None, envRepo, remote, <<>>))

Next ==
    \/ Build
    \/ Build_p5
    \/ Build_p6
    \/ TamperContent
    \/ TamperCommit
    \/ TamperSignature
    \/ TamperToken
    \/ Corrupt
    \/ Resign
    \/ Verify_p5
    \/ Verify_p6

Spec == Init /\ [][Next]_vars

----------------------------------------------------------------------------
(* Build, then verify. *)

\* the flags of a result, whatever the revision
Flags(vr) == DOMAIN vr \ {"Errors"}
AllFlags(vr) == \A f \in Flags(vr) : vr[f]
Success(run) ==
    /\ run.result # None
    /\ IF run.rev = "p5" THEN IsVerificationSuccessful_p5(run.result[1])
       ELSE IsVerificationSuccessful_p6(run.result[1])

\* a successful build whose file nobody touched is verified by the verifier of
\* the same revision, the issuer vouching for the token, and the verifier given
\* what the build was given: the key set of the build, the payload's commit SHA,
\* the repository of the build, the workflow the token was issued to
RoundTripCase ==
    /\ b # None /\ v # None
    /\ b[1].exit = 0
    /\ tampers = <<>>
    /\ b[1].att[1].payload.content_size > 0
    /\ v[1].called
    /\ v[1].rev = b[1].rev
    /\ v[1].cfg.opOK
    /\ b[1].att[1].pk_token.claims[1].job_workflow_ref = expectedWorkflowRef
    /\ b[1].rev = "p5" => v[1].cfg.jwks = Some(b[1].att[1].payload.jwks)
    /\ b[1].rev = "p6" =>
          /\ v[1].cfg.commitSHA = b[1].att[1].payload.commit_sha
          /\ v[1].cfg.envRepo # <<>>
          /\ Some(v[1].cfg.envRepo) = b[1].att[1].payload.metadata

\* C1: every attestation of a successful build, persisted unchanged, passes
\* every check of a later VerifyAttestation run.
C1_RoundTrip == RoundTripCase => Success(v[1])

\* the file as the build persisted it
Persisted == AttestationFile(b[1].att[1], b[1].rev)

\* two strings of bytes that differ in one place
OneByteApart(x, y) ==
    /\ Len(x) = Len(y)
    /\ Cardinality({i \in 1..Len(x) : x[i] # y[i]}) = 1

\* the persisted file with one byte of its content changed, signature and
\* token as they were, and a verifier run that reported on it
TamperCase ==
    /\ b # None /\ v # None
    /\ b[1].stage \in {"done", "panic"}
    /\ fs_out # None
    /\ fs_out[1].ok
    /\ OneByteApart(fs_out[1].payload.content, Persisted.payload.content)
    /\ fs_out[1].signature = Persisted.signature
    /\ fs_out[1].pk_token = Persisted.pk_token
    /\ v[1].result # None

\* C2: with one byte of the content changed and signature and token untouched,
\* the payload-digest check and the recomputation check are both reported as
\* failed and the verdict is failure, whatever the first two checks say.
C2_TamperedContentFails ==
    TamperCase =>
        /\ ~v[1].result[1].PayloadHashVerified
        /\ ~v[1].result[1].ProgramHashVerified
        /\ ~Success(v[1])
        /\ v[1].exit # 0

C2_Witness ==
    /\ TamperCase
    /\ v[1].rev = "p6"
    /\ b[1].rev = "p6"
    /\ v[1].result[1].PKTokenVerified
    /\ v[1].result[1].SignedMessageVerified
    /\ v[1].result[1].CommitSHAVerified
    /\ v[1].result[1].OracleVerified
    /\ ~v[1].result[1].PayloadHashVerified

\* the verifier's own reading of the file
LoadsFor(rev, f) ==
    IF rev = "p5" THEN LoadAttestation_p5(f) # None ELSE LoadAttestation_p6(f) # None

C4_VerdictIsConjunction ==
    v # None =>
        /\ v[1].result # None => (Success(v[1]) <=> AllFlags(v[1].result[1]))
        /\ v[1].exit = 0 <=> (v[1].result # None /\ AllFlags(v[1].result[1]))
        /\ v[1].exit \in {0, 1}

C4_Witness ==
    /\ v # None
    /\ v[1].exit = 0
    /\ v[1].result # None
    /\ AllFlags(v[1].result[1])

\* C5: a result holds one entry of Errors for each check that failed and none
\* for a check that passed; Errors is empty exactly on success; the summary of
\* a failed verification lists every entry.
C5_OneErrorPerFailedCheck ==
    (v # None /\ v[1].result # None) =>
        /\ Len(v[1].result[1].Errors)
             = Cardinality({f \in Flags(v[1].result[1]) : ~v[1].result[1][f]})
        /\ v[1].result[1].Errors = <<>> <=> Success(v[1])
        /\ ~Success(v[1]) =>
             \A i \in 1..Len(v[1].result[1].Errors) :
                \E j \in 1..Len(v[1].summary) : v[1].summary[j] = v[1].result[1].Errors[i]

\* C9: when the linker finds a prior attestation, the payload that is signed
\* and persisted carries what it found as its link; when the linker reports
\* that there is none, the link is absent and the build goes on past the linker.
C9_ChainLink ==
    (b # None /\ b[1].rev \in {"cur", "p5"}) =>
        /\ b[1].link = "found" => b[1].found # None
        /\ b[1].link = "notfound" => (b[1].found = None /\ b[1].stage # "link")
        /\ (b[1].link \in {"found", "notfound"} /\ b[1].att # None) =>
             /\ b[1].rev = "cur" =>
                  /\ b[1].att[1].payload.previous_attestation = b[1].found
                  /\ b[1].att[1].signature.msg = Hash(b[1].att[1].payload)
             /\ b[1].rev = "p5" =>
                  /\ b[1].att[1].payload.prev_attestation_digest
                       = IF b[1].found = None THEN NilBytes
                         ELSE Hash_p5(b[1].found[1].payload)
                  /\ b[1].att[1].signature.msg = Hash_p5(b[1].att[1].payload)
             /\ (b[1].stage \in {"done", "panic"} /\ tampers = <<>>) =>
                  /\ fs_out = Some(Persisted)
                  /\ b[1].rev = "cur" =>
                       LoadAttestation(fs_out)[1].payload.previous_attestation = b[1].found

C9_Witness ==
    /\ b # None
    /\ b[1].rev = "cur"
    /\ b[1].link = "found"
    /\ b[1].exit = 0
    /\ b[1].found = Some(Details(Art2.digest, <<"/repos/">> \o REPO_MAIN
                                   \o <<"/actions/artifacts/">> \o Art2.id \o <<"/zip">>))
    /\ fs_out # None
    /\ fs_out[1].payload.previous_attestation = b[1].found

----------------------------------------------------------------------------
(* Change detection over the file a build left. *)

\* one call of CheckContentChanges of attestation.go on the attestation file,
\* with the digest of a fresh download
Check ==
    /\ cc = None
    /\ \E path \in {<<>>, OutName}, c \in Contents :
         LET currentDigest == DownloadContent(Some(c))[1].digest
             r == CheckContentChanges(currentDigest, path, fs_out)
         IN cc' = Some([rev |-> "cur", path |-> path, currentDigest |-> currentDigest,
                        file |-> fs_out, changed |-> r.changed, err |-> r.err])
    /\ UNCHANGED <<fs_out, fs_details, fs_prev, b, tampers, v, lk, hp, cp, store>>

\* one call of CheckContentChanges of part_005
Check_p5 ==
    /\ cc = None
    /\ \E path \in {<<>>, OutName}, c \in Contents :
         LET currentHash == DownloadContent_p5(Some(c))[1].digest
             r == CheckContentChanges_p5(currentHash, path, fs_out)
         IN cc' = Some([rev |-> "p5", path |-> path, currentDigest |-> currentHash,
                        file |-> fs_out, changed |-> r.changed, err |-> r.err])
    /\ UNCHANGED <<fs_out, fs_details, fs_prev, b, tampers, v, lk, hp, cp, store>>

NextChange ==
    \/ Build
    \/ Build_p5
    \/ Build_p6
    \/ Corrupt
    \/ Check
    \/ Check_p5

SpecChange == Init /\ [][NextChange]_vars

\* what the call's own revision reads from the file it was given
PreviousOf(call) ==
    IF call.rev = "p5" THEN LoadAttestation_p5(call.file) ELSE LoadAttestation(call.file)

\* C7: with no path, no file or a file that is no attestation,
\* CheckContentChanges answers changed, and no error.
C7_FailsOpen ==
    (cc # None /\ (cc[1].path = <<>> \/ PreviousOf(cc[1]) = None)) =>
        (cc[1].changed /\ ~cc[1].err)

C7_Witness ==
    /\ cc # None
    /\ cc[1].rev = "cur"
    /\ cc[1].path # <<>>
    /\ cc[1].file = Some(Garbage)
    /\ cc[1].changed

\* C8: when the previous attestation parses, CheckContentChanges answers
\* unchanged exactly when its content digest equals the current digest.
C8_UnchangedIffSameDigest ==
    (cc # None /\ cc[1].path # <<>> /\ PreviousOf(cc[1]) # None) =>
        (~cc[1].changed <=> PreviousOf(cc[1])[1].payload.content_digest = cc[1].currentDigest)

----------------------------------------------------------------------------
(* The chain linker on its own. *)

REF_SHORTPATH ==
    <<"kipz", "/", "url-oracle", "/", "create-attestation.yml", "@",
      "refs", "/", "heads", "/", "main">>
REF_TAG ==
    <<"kipz", "/", "url-oracle", "/", ".github", "/", "workflows", "/",
      "create-attestation.yml", "@", "v1">>
REF_TWOAT ==
    <<"kipz", "/", "url-oracle", "/", ".github", "/", "workflows", "/",
      "create-attestation.yml", "@", "refs", "/", "heads", "/", "main", "@", "x">>
REF_NOVERIFY ==
    <<"kipz", "/", "url-oracle", "/", ".github", "/", "workflows", "/",
      "create-attestation.yml", "@", "refs", "/", "heads", "/", "--no-verify">>

LinkRefs ==
    {expectedWorkflowRef, REF_FORK, REF_NOAT, REF_SHORTPATH, REF_TAG, REF_TWOAT,
     REF_NOVERIFY}

ClaimsOf(ref) == ExtractClaimsFromIDToken(PKToken(Some(TokenClaims(SHA_FULL, 1, ref, ref)), "k1", githubIssuer))[1]

InitLinker ==
    /\ fs_out = None
    /\ fs_details \in {None, Some(StaleDetails), Some(Garbage)}
    /\ fs_prev \in {None, Some(Garbage)}
    /\ b = None
    /\ tampers = <<>>
    /\ store = <<>>
    /\ v = None
    /\ lk = None
    /\ cc = None
    /\ hp = None
    /\ cp = None

LinksSoFar == IF lk = None THEN 0 ELSE lk[1].n

\* the state after a call of the linker: what it returned and did, and the run
\* of the script it met (e), for the workflow reference it was given (ref)
AfterLink(rev, ref, e, r) ==
    /\ lk' = Some([n |-> LinksSoFar + 1, rev |-> rev, found |-> r.found, err |-> r.err,
                   ran |-> r.ran, args |-> r.args, exit |-> r.exit, e |-> e,
                   ref |-> ref])
    /\ fs_details' = r.details
    /\ fs_prev' = r.prev
    /\ UNCHANGED <<fs_out, b, tampers, v, cc, hp, cp, store>>

\* one call of fetchPreviousAttestationDetails, part_002
Link ==
    /\ LinksSoFar < MaxLinks
    /\ \E ref \in LinkRefs, run \in Runs :
         AfterLink("cur", ref, run,
                   fetchPreviousAttestationDetails(ClaimsOf(ref), OutName, run,
                                                   fs_details, fs_prev))

\* one call of fetchPreviousAttestation, part_001
Link_p5 ==
    /\ LinksSoFar < MaxLinks
    /\ \E ref \in LinkRefs, run \in Runs :
         AfterLink("p5", ref, run,
                   fetchPreviousAttestation_p5(ref, run, fs_details, fs_prev))

NextLinker ==
    \/ Link
    \/ Link_p5

SpecLinker == InitLinker /\ [][NextLinker]_vars

\* the file the linker of a revision loads after the script
LinkedFile(rev) == IF rev = "p5" THEN fs_prev ELSE fs_details
LinkedFileLoads(rev) ==
    IF rev = "p5" THEN LoadAttestation_p5(fs_prev) # None
    ELSE LoadAttestationDetails(fs_details) # None

\* C10: the linker returns details or an error, never both; it reports "none
\* found" (neither) only when the script exits with status 2; every other
\* failure of the script, a script that cannot be started, a missing file after
\* exit 0 and an unparsable file are errors.
C10_LinkerOutcomes ==
    lk # None =>
        /\ ~(lk[1].found # None /\ lk[1].err)
        /\ (lk[1].found = None /\ ~lk[1].err) => (lk[1].ran /\ lk[1].exit = 2)
        /\ (lk[1].ran /\ lk[1].exit \notin {0, 2}) => (lk[1].err /\ lk[1].found = None)
        /\ (lk[1].ran /\ lk[1].exit = 0 /\ LinkedFile(lk[1].rev) = None) => lk[1].err
        /\ (lk[1].ran /\ lk[1].exit = 0 /\ ~LinkedFileLoads(lk[1].rev)) => lk[1].err
        /\ ~lk[1].ran => lk[1].err

C10_Witness ==
    /\ lk # None
    /\ lk[1].rev = "cur"
    /\ lk[1].ran
    /\ lk[1].exit = 0
    /\ fs_details = None
    /\ lk[1].err

----------------------------------------------------------------------------
(* The digest of a payload, over pairs of payloads. *)

HashedDetails == Details(Art1.digest, <<"/repos/", "x", "/zip">>)

\* payloads of attestation.go
HashPayloads ==
    {CreateAttestationPayload(RFC3339(1), sha, prev, url, c, DownloadContent(Some(d))[1].digest, n) :
        sha \in {SHA_FULL, SHA_SHORT}, prev \in {None, Some(HashedDetails)},
        url \in {URL_A, URL_FE, URL_FF}, c \in {<<>>, <<"0">>, NilBytes},
        d \in {<<>>, <<"0">>}, n \in {0, 1}}

\* payloads of part_006
HashPayloads_p6 ==
    {CreateAttestationPayload_p6(sha, TS_FLAG, url, B64(c), DownloadContent_p6(Some(d))[1].digest, n, repo) :
        sha \in {SHA_FULL, SHA_SHORT}, url \in {URL_A, URL_FE, URL_FF},
        c \in {<<>>, <<"0">>}, d \in {<<"0">>}, n \in {0, 1},
        repo \in {REPO_MAIN, REPO_FORK}}

HashPair(rev, P, Q) == [rev |-> rev, P |-> P, Q |-> Q, hP |-> None, hQ |-> None]

InitHash ==
    /\ fs_out = None
    /\ fs_details = None
    /\ fs_prev = None
    /\ b = None
    /\ tampers = <<>>
    /\ store = <<>>
    /\ v = None
    /\ lk = None
    /\ cc = None
    /\ cp = None
    /\ hp \in {Some(HashPair("cur", P, Q)) : P \in HashPayloads, Q \in HashPayloads}
              \cup {Some(HashPair("p6", P, Q)) : P \in HashPayloads_p6, Q \in HashPayloads_p6}

\* Hash of attestation.go on both payloads of the pair
HashBoth ==
    /\ hp[1].rev = "cur"
    /\ hp[1].hP = None
    /\ hp' = Some([hp[1] EXCEPT !.hP = Some(Hash(hp[1].P)), !.hQ = Some(Hash(hp[1].Q))])
    /\ UNCHANGED <<fs_out, fs_details, fs_prev, b, tampers, v, lk, cc, cp, store>>

\* Hash of part_006 on both payloads of the pair
HashBoth_p6 ==
    /\ hp[1].rev = "p6"
    /\ hp[1].hP = None
    /\ hp' = Some([hp[1] EXCEPT !.hP = Some(Hash_p6(hp[1].P)), !.hQ = Some(Hash_p6(hp[1].Q))])
    /\ UNCHANGED <<fs_out, fs_details, fs_prev, b, tampers, v, lk, cc, cp, store>>

NextHash ==
    \/ HashBoth
    \/ HashBoth_p6

SpecHash == InitHash /\ [][NextHash]_vars

\* C6: two payloads have the same digest exactly when they agree on every
\* field.
C6_HashInjective ==
    (hp # None /\ hp[1].hP # None) => (hp[1].hP = hp[1].hQ <=> hp[1].P = hp[1].Q)

----------------------------------------------------------------------------
(* The builder alone, over an output file that may be there already. *)

\* the attestation file an earlier run left at the output path
PriorOutput == Art1.file

InitBuild ==
    /\ fs_out \in {None, Some(PriorOutput)}
    /\ fs_details \in {None, Some(StaleDetails)}
    /\ fs_prev = None
    /\ b = None
    /\ tampers = <<>>
    /\ store = <<>>
    /\ v = None
    /\ lk = None
    /\ cc = None
    /\ hp = None
    /\ cp = None

NextBuild ==
    \/ Build
    \/ Build_p5
    \/ Build_p6

SpecBuild == InitBuild /\ [][NextBuild]_vars

\* C11: a build whose chain linker returned an error stops there: it has no
\* payload and no signature, leaves the output file as it was and exits
\* non-zero.
C11_LinkerErrorAborts ==
    (b # None /\ b[1].link = "error") =>
        /\ b[1].stage = "link"
        /\ b[1].att = None
        /\ b[1].exit # 0
        /\ fs_out \in {None, Some(PriorOutput)}

C11_Witness ==
    /\ b # None
    /\ b[1].rev = "cur"
    /\ b[1].link = "error"
    /\ b[1].exit = 1
    /\ fs_out = Some(PriorOutput)

\* the owner/repo a workflow_ref of the expected shape names
RepoOfRef(ref) ==
    LET path == Split(Split(ref, "@")[1], "/") IN path[1] \o <<"/">> \o path[2]

\* C12: in every attestation a builder persists, the commit SHA is the token's
\* job_workflow_sha, the timestamp is the token's iat in RFC 3339, and the
\* details the linker's script wrote in this run are of the repository the
\* token's workflow_ref names, whatever flags the caller gave.
C12_ClaimsAreTheOnlySource ==
    (b # None /\ b[1].stage \in {"done", "panic"}
       /\ b[1].att[1].pk_token.claims # None) =>
        LET att == b[1].att[1]
            claims == att.pk_token.claims[1]
        IN /\ fs_out = Some(AttestationFile(att, b[1].rev))
           /\ att.payload.commit_sha = claims.job_workflow_sha
           /\ att.payload.timestamp = RFC3339(claims.iat)
           /\ (b[1].rev = "cur" /\ b[1].link = "found" /\ fs_details # Some(StaleDetails)) =>
                SubSeq(b[1].found[1].artifact_url, 1, 1 + Len(RepoOfRef(claims.workflow_ref)))
                  = <<"/repos/">> \o RepoOfRef(claims.workflow_ref)

\* the steps of a build that come before the file is written
StepsBeforeSave == {"env", "flags", "download", "auth", "claims", "link", "payload", "sign"}

\* C13: a run of a builder changes the output file only when it got as far as
\* a signed attestation, and a run that ended at a missing parameter or at a
\* failed fetch, authentication, claim extraction, chain lookup or signing
\* leaves the file as it was and exits non-zero.
C13_WritesOnlyAfterSuccess ==
    [][(b = None /\ b' # None) =>
          /\ fs_out' # fs_out =>
                /\ b'[1].att # None
                /\ b'[1].link # "error"
                /\ b'[1].stage \notin StepsBeforeSave
                /\ fs_out' = Some(AttestationFile(b'[1].att[1], b'[1].rev))
          /\ b'[1].stage \in StepsBeforeSave =>
                /\ fs_out' = fs_out
                /\ b'[1].exit # 0]_vars

C13_Witness ==
    /\ b # None
    /\ b[1].rev = "cur"
    /\ b[1].stage = "sign"
    /\ b[1].exit = 1
    /\ fs_out = Some(PriorOutput)

----------------------------------------------------------------------------
(* The payload builder, over what a caller can pass. *)

\* a call: the content, and the digest and size the caller says it has (the
\* digest as DownloadContent of the call's revision computes it, of content
\* that may be another)
PayloadCall(rev, url, content, digestOf, contentSize) ==
    [rev |-> rev, url |-> url, content |-> content, digestOf |-> digestOf,
     contentSize |-> contentSize, payload |-> None]

InitPayload ==
    /\ fs_out = None
    /\ fs_details = None
    /\ fs_prev = None
    /\ b = None
    /\ tampers = <<>>
    /\ store = <<>>
    /\ v = None
    /\ lk = None
    /\ cc = None
    /\ hp = None
    /\ cp \in {Some(PayloadCall(rev, url, content, digestOf, contentSize)) :
                 rev \in {"cur", "p5", "p6"}, url \in Urls, content \in Contents,
                 digestOf \in Contents, contentSize \in 0..MaxLen}

\* CreateAttestationPayload of attestation.go
Create ==
    /\ cp[1].rev = "cur"
    /\ cp[1].payload = None
    /\ cp' = Some([cp[1] EXCEPT !.payload =
                     Some(CreateAttestationPayload(RFC3339(1), SHA_FULL, None, cp[1].url,
                              cp[1].content,
                              DownloadContent(Some(cp[1].digestOf))[1].digest,
                              cp[1].contentSize))])
    /\ UNCHANGED <<fs_out, fs_details, fs_prev, b, tampers, v, lk, cc, hp, store>>

\* CreateAttestationPayload of part_005
Create_p5 ==
    /\ cp[1].rev = "p5"
    /\ cp[1].payload = None
    /\ cp' = Some([cp[1] EXCEPT !.payload =
                     CreateAttestationPayload_p5(None, SHA_FULL, RFC3339(1), cp[1].url,
                         cp[1].content,
                         DownloadContent_p5(Some(cp[1].digestOf))[1].digest,
                         cp[1].contentSize, Some(JWKS_1))])
    /\ UNCHANGED <<fs_out, fs_details, fs_prev, b, tampers, v, lk, cc, hp, store>>

\* CreateAttestationPayload of part_006, on the content as main passes it
Create_p6 ==
    /\ cp[1].rev = "p6"
    /\ cp[1].payload = None
    /\ cp' = Some([cp[1] EXCEPT !.payload =
                     Some(CreateAttestationPayload_p6(SHA_FULL, TS_FLAG, cp[1].url,
                              B64(cp[1].content),
                              DownloadContent_p6(Some(cp[1].digestOf))[1].digest,
                              cp[1].contentSize, REPO_MAIN))])
    /\ UNCHANGED <<fs_out, fs_details, fs_prev, b, tampers, v, lk, cc, hp, store>>

NextPayload ==
    \/ Create
    \/ Create_p5
    \/ Create_p6

SpecPayload == InitPayload /\ [][NextPayload]_vars

\* C14: the payload CreateAttestationPayload returns carries the digest of its
\* own content and the length of its own content, whatever digest and size it
\* was called with.
C14_PayloadComputesDigest ==
    (cp # None /\ cp[1].payload # None) =>
        /\ cp[1].payload[1].content_digest = DigestOf(cp[1].rev, cp[1].content)
        /\ cp[1].payload[1].content_size = Len(cp[1].content)

----------------------------------------------------------------------------
(* The verifier and the digest and size a payload states. *)

\* the bytes of the content of a payload as a verifier loaded it
BytesOf(rev, payload) == IF rev = "p5" THEN payload.content ELSE UnB64(payload.content)

\* C15: VerifyAttestation reports success only for a payload whose
\* content_digest is the digest of its content and whose content_size is the
\* length of its content, a valid signature over the payload notwithstanding.
C15_DigestNotOnFaith ==
    (v # None /\ Success(v[1])) =>
        LET payload == IF v[1].rev = "p5" THEN LoadAttestation_p5(fs_out)[1].payload
                       ELSE LoadAttestation_p6(fs_out)[1].payload
        IN /\ payload.content_digest = DigestOf(v[1].rev, BytesOf(v[1].rev, payload))
           /\ payload.content_size = Len(BytesOf(v[1].rev, payload))

\* the message recovered from the signature of the file a verifier loaded is
\* the digest of the payload it loaded
SignsStoredPayload(rev, f) ==
    LET Covers(att, hash) ==
            VerifySignedMessage(att.pk_token, att.signature) = Some(hash)
    IN IF rev = "p5"
       THEN Covers(LoadAttestation_p5(f)[1], Hash_p5(LoadAttestation_p5(f)[1].payload))
       ELSE Covers(LoadAttestation_p6(f)[1], Hash_p6(LoadAttestation_p6(f)[1].payload))

\* C16: the recomputation check passes exactly when the message recovered from
\* the signature is the digest of a payload rebuilt from the stored payload's
\* own fields, which is the digest of the stored payload; nothing outside the
\* stored payload (environment, network, the attestation as its own
\* predecessor) has a say.
C16_RebuiltFromStoredOnly ==
    (v # None /\ v[1].result # None) =>
        (v[1].result[1].ProgramHashVerified <=> SignsStoredPayload(v[1].rev, fs_out))

----------------------------------------------------------------------------
(* The checks of identity: workflow SHA, commit SHA, workflow, oracle. *)

\* C17: the verifier of part_003 sets WorkflowSHAVerified exactly when the
\* token's job_workflow_sha claim is the commit_sha of the payload it loaded,
\* and a run that finds them different neither reports success nor exits 0.
C17_WorkflowSHAConsistency ==
    (v # None /\ v[1].rev = "p5" /\ v[1].result # None) =>
        LET Consistent(att) ==
                /\ att.pk_token.claims # None
                /\ att.pk_token.claims[1].job_workflow_sha = att.payload.commit_sha
            About(consistent) ==
                /\ v[1].result[1].WorkflowSHAVerified <=> consistent
                /\ ~consistent => (~Success(v[1]) /\ v[1].exit # 0)
        IN About(Consistent(LoadAttestation_p5(fs_out)[1]))

\* the commit SHA of the persisted file was replaced, and the workflow-SHA
\* check is the one that noticed among the checks of the token
C17_Witness ==
    /\ v # None /\ b # None
    /\ v[1].rev = "p5" /\ b[1].rev = "p5"
    /\ tampers = <<"commit_sha">>
    /\ v[1].result # None
    /\ v[1].result[1].PKTokenVerified
    /\ v[1].result[1].SignedMessageVerified
    /\ v[1].result[1].WorkflowRefVerified
    /\ ~v[1].result[1].WorkflowSHAVerified
    /\ v[1].exit = 1

\* C18: given a current commit SHA, the verifier of
\* cmd/verify_attestation/main.go sets CommitSHAVerified exactly when the
\* commit_sha of the payload it loaded is that value, and an attestation made
\* at another commit is neither reported as verified nor answered with exit 0.
C18_AntiReplay ==
    (v # None /\ v[1].rev = "p6" /\ v[1].result # None /\ v[1].cfg.commitSHA # <<>>) =>
        LET About(current) ==
                /\ v[1].result[1].CommitSHAVerified <=> current
                /\ ~current => (~Success(v[1]) /\ v[1].exit # 0)
        IN About(LoadAttestation_p6(fs_out)[1].payload.commit_sha = v[1].cfg.commitSHA)

\* an untouched attestation made at one commit, presented at another: every
\* check but the commit-SHA check passes
C18_Witness ==
    /\ v # None /\ b # None
    /\ v[1].rev = "p6" /\ b[1].rev = "p6"
    /\ tampers = <<>>
    /\ v[1].result # None
    /\ b[1].att[1].payload.commit_sha = SHA_SHORT
    /\ v[1].cfg.commitSHA = SHA_FULL
    /\ v[1].result[1].PKTokenVerified
    /\ v[1].result[1].SignedMessageVerified
    /\ v[1].result[1].PayloadHashVerified
    /\ v[1].result[1].ProgramHashVerified
    /\ v[1].result[1].OracleVerified
    /\ ~v[1].result[1].CommitSHAVerified
    /\ v[1].exit = 1

\* C19: with an expected workflow reference configured, WorkflowRefVerified is
\* set exactly when the token's workflow reference is the configured value;
\* with none configured, the check is not one that fails.
C19_ConfiguredWorkflowRef ==
    (v # None /\ v[1].rev = "p5" /\ v[1].result # None) =>
        LET About(claims) ==
                IF v[1].cfg.workflowRef # <<>>
                THEN v[1].result[1].WorkflowRefVerified
                        <=> (/\ claims # None
                             /\ claims[1].job_workflow_ref = v[1].cfg.workflowRef)
                ELSE v[1].result[1].WorkflowRefVerified
        IN About(LoadAttestation_p5(fs_out)[1].pk_token.claims)

\* the repository of the verifying environment: GITHUB_REPOSITORY, else what
\* the origin of the working copy names; <<>> when neither names one
CurrentRepo(cfg) ==
    IF cfg.envRepo # <<>> THEN cfg.envRepo
    ELSE IF cfg.remote = None THEN <<>> ELSE cfg.remote[1]

\* C20: the verifier of cmd/verify_attestation/main.go sets OracleVerified
\* exactly when the metadata of the payload it loaded names the repository of
\* the verifying environment; an attestation that names another repository, or
\* none, is neither reported as verified nor answered with exit 0.
C20_OracleIdentity ==
    (v # None /\ v[1].rev = "p6" /\ v[1].result # None) =>
        LET About(same) ==
                /\ v[1].result[1].OracleVerified <=> same
                /\ ~same => (~Success(v[1]) /\ v[1].exit # 0)
            Same(metadata, currentRepo) ==
                /\ currentRepo # <<>>
                /\ metadata = Some(currentRepo)
        IN About(Same(LoadAttestation_p6(fs_out)[1].payload.metadata,
                      CurrentRepo(v[1].cfg)))

\* an untouched attestation of one repository, presented in another: every
\* check passes but the recomputation, which reads the same environment, and
\* the oracle check
C20_Witness ==
    /\ v # None /\ b # None
    /\ v[1].rev = "p6" /\ b[1].rev = "p6"
    /\ tampers = <<>>
    /\ v[1].result # None
    /\ b[1].att[1].payload.metadata = Some(REPO_MAIN)
    /\ v[1].cfg.envRepo = REPO_FORK
    /\ v[1].result[1].PKTokenVerified
    /\ v[1].result[1].SignedMessageVerified
    /\ v[1].result[1].PayloadHashVerified
    /\ v[1].result[1].CommitSHAVerified
    /\ ~v[1].result[1].OracleVerified
    /\ v[1].exit = 1

----------------------------------------------------------------------------
(* What the verifier has printed when it exits. *)

\* the lines of the table and of the summary, as the main of a revision
\* prints them for a result
ReportOf(rev, vr) ==
    IF rev = "p5" THEN ResultLines_p5 \o <<"">> \o GetSummary_p5(vr)
    ELSE ResultLines_p6 \o <<"">> \o GetSummary_p6(vr)

\* C21: a run of the verifier that ends non-zero because a check failed has by
\* then printed a line for every check of the table and, after them, the
\* summary with every error in it.
C21_ReportBeforeExit ==
    (v # None /\ v[1].exit # 0 /\ v[1].result # None) =>
        LET Complete(out, report) ==
                /\ Len(out) >= 2 + Len(report)
                /\ SubSeq(out, 3, 2 + Len(report)) = report
        IN /\ Complete(v[1].stdout, ReportOf(v[1].rev, v[1].result[1]))
           /\ \A i \in 1..Len(v[1].result[1].Errors) :
                 \E j \in 1..Len(v[1].stdout) : v[1].stdout[j] = v[1].result[1].Errors[i]

\* a run in which two checks failed, and both are in what was printed
C21_Witness ==
    /\ v # None
    /\ v[1].rev = "p6"
    /\ v[1].exit = 1
    /\ v[1].result # None
    /\ ~v[1].result[1].CommitSHAVerified
    /\ ~v[1].result[1].OracleVerified
    /\ v[1].result[1].PayloadHashVerified
    /\ Len(v[1].stdout) > 2 + Len(ResultLines_p6)

----------------------------------------------------------------------------
(* The exit codes of the download script. *)

\* the script was started and got past its check of the arguments; verifies:
\* it was not told --no-verify
ScriptLooksUp(call) ==
    /\ call.ran
    /\ call.e.start
    /\ Len(SelectSeq(call.args, LAMBDA a : a # NoVerifyFlag)) \in {3, 4}
ScriptVerifies(call) == \A i \in 1..Len(call.args) : call.args[i] # NoVerifyFlag

\* C22: the script exits 2 exactly when there is no successful run or the run
\* has no artifact of the name; a failure of the repository access, of the
\* artifact API, of the download, of unzip, of the JSON parsing or of the
\* verification of the previous attestation ends with a code other than 0 and 2.
C22_ScriptExitCodes ==
    (lk # None /\ ScriptLooksUp(lk[1])) =>
        /\ lk[1].exit = 2 <=> lk[1].e.path \in {"no_run", "no_artifact"}
        /\ lk[1].e.path \in {"runlist_fail", "artifact_api_fail", "download_fail",
                              "unzip_fail", "jq_fail"}
              => lk[1].exit \notin {0, 2}
        /\ (ScriptVerifies(lk[1]) /\ lk[1].e.path \in {"clone_fail", "verify_failed"})
              => lk[1].exit \notin {0, 2}

----------------------------------------------------------------------------
(* The builds of one job, one after the other. *)

\* what the artifact store calls the attestations of the job, oldest first
ArtifactIds == <<<<"201">>, <<"202">>, <<"203">>, <<"204">>>>

\* the artifact the store keeps for the n-th attestation of the job
StoredAs(n, file) == Artifact(<<"sha256:", "zip">> \o ArtifactIds[n], ArtifactIds[n], file)

InitChain ==
    /\ fs_out = None
    /\ fs_details = None
    /\ fs_prev = None
    /\ b = None
    /\ tampers = <<>>
    /\ store = <<>>
    /\ v = None
    /\ lk = None
    /\ cc = None
    /\ hp = None
    /\ cp = None

\* where a run of the script can go when the store answers with the latest
\* attestation of the job, intact (or has none yet)
ChainPaths ==
    IF store = <<>> THEN {"runlist_fail", "no_run"}
    ELSE ScriptPaths \ {"no_run", "no_artifact", "unzip_fail", "jq_fail"}

\* one more run of generate_attestation (part_002) for the job, with chain
\* linking; fresh: in a new working directory, else in the one the build
\* before it left; path: how the script's run goes.  A build that exits 0 has
\* its attestation stored.
BuildNext ==
    /\ Len(store) < MaxBuilds
    /\ \E fresh \in BOOLEAN, c \in Contents, t \in {tokMain, tokShort}, path \in ChainPaths :
         LET Ends(r) ==
                 /\ fs_out' = r.out
                 /\ fs_details' = r.details
                 /\ fs_prev' = r.prev
                 /\ b' = Some([rev |-> r.rev, stage |-> r.stage, exit |-> r.exit,
                               att |-> r.att, link |-> r.link, found |-> r.found,
                               fresh |-> fresh, path |-> path])
                 /\ store' = IF r.exit = 0
                             THEN Append(store, StoredAs(Len(store) + 1, r.out[1]))
                             ELSE store
                 /\ UNCHANGED <<tampers, v, lk, cc, hp, cp>>
         IN Ends(generate_main(TRUE, OutName, URL_A, FALSE,
                               World(Some(c), Some(t), TRUE,
                                     ScriptRun(TRUE, path,
                                               IF store = <<>> THEN Art1
                                               ELSE store[Len(store)]),
                                     None, TRUE),
                               IF fresh THEN None ELSE fs_out,
                               IF fresh THEN None ELSE fs_details,
                               IF fresh THEN None ELSE fs_prev))

NextChain == BuildNext

SpecChain == InitChain /\ [][NextChain]_vars

\* C23: of the attestations a job's successful builds stored one after the
\* other, the first carries no previous link and every later one carries the
\* digest of the attestation stored just before it.
C23_LinearChain ==
    \A i \in 1..Len(store) :
        LET Links(link) ==
                IF i = 1 THEN link = None
                ELSE link # None /\ link[1].digest = store[i - 1].digest
        IN Links(store[i].file.payload.previous_attestation)

----------------------------------------------------------------------------
(* What the builder signs. *)

\* the signature of an attestation is one of its token's key over the digest
\* of its payload, by the Hash of a revision
SignsDigest(rev, att) ==
    LET Covers(hash) == VerifySignedMessage(att.pk_token, att.signature) = Some(hash)
    IN CASE rev = "cur" -> Covers(Hash(att.payload))
         [] rev = "p5" -> Covers(Hash_p5(att.payload))
         [] rev = "p6" -> Covers(Hash_p6(att.payload))

\* the attestation in a file as the package of a revision loads it
LoadedBy(rev, f) ==
    CASE rev = "cur" -> LoadAttestation(f)
      [] rev = "p5" -> LoadAttestation_p5(f)
      [] rev = "p6" -> LoadAttestation_p6(f)

\* C24: in every attestation a builder persists, the signature is one of the
\* key of the token persisted with it, and the message it signs is the digest
\* (not the payload itself) of the payload persisted with it, by the Hash the
\* verifier of that revision applies to the file.
C24_SignsPersistedDigest ==
    (b # None /\ b[1].stage \in {"done", "panic"}) =>
        /\ SignsDigest(b[1].rev, b[1].att[1])
        /\ b[1].att[1].signature.msg # b[1].att[1].payload
        /\ LoadedBy(b[1].rev, fs_out) # None
        /\ SignsDigest(b[1].rev, LoadedBy(b[1].rev, fs_out)[1])

----------------------------------------------------------------------------
(* How a build ends once the file is written. *)

\* C25: a build in which every step up to and including the save succeeded
\* exits 0, whatever non-empty commit SHA the token names; none ends abnormally
\* after the file is written.
C25_SuccessExitsZero ==
    (b # None /\ b[1].stage \notin (StepsBeforeSave \cup {"save"})) =>
        /\ fs_out = Some(AttestationFile(b[1].att[1], b[1].rev))
        /\ b[1].att[1].payload.commit_sha # <<>>
        /\ b[1].exit = 0

----------------------------------------------------------------------------
(* Parsing of the workflow reference by the chain linker. *)

\* one path part and one ref part around a single '@', five path segments and
\* three ref segments
WellFormedRef(ref) ==
    LET parts == Split(ref, "@") IN
    /\ Len(parts) = 2
    /\ Len(Split(parts[1], "/")) = 5
    /\ Len(Split(parts[2], "/")) = 3

\* repository, workflow file and branch a well-formed reference names
QueryOf(ref) ==
    LET parts == Split(ref, "@")
        path == Split(parts[1], "/")
    IN <<path[1] \o <<"/">> \o path[2], path[5], Split(parts[2], "/")[3]>>

\* what the script was asked for, without the file name part_002 passes first
QueryMade(call) == IF call.rev = "p5" THEN call.args ELSE Tail(call.args)

\* C26: for a workflow reference that is not one path part of 5 segments and
\* one ref part of 3 segments around a single '@', the linker returns an error
\* (not "none found") without running the script; for a well-formed one it
\* asks the script for owner/repo, the workflow file and the branch.
C26_WorkflowRefParsing ==
    lk # None =>
        IF WellFormedRef(lk[1].ref)
        THEN lk[1].ran /\ QueryMade(lk[1]) = QueryOf(lk[1].ref)
        ELSE lk[1].err /\ lk[1].found = None /\ ~lk[1].ran

----------------------------------------------------------------------------
(* Claim extraction and the build. *)

\* the three claims a token must carry
HasRequiredClaims(pkToken) ==
    /\ pkToken.claims # None
    /\ pkToken.claims[1].job_workflow_sha # <<>>
    /\ pkToken.claims[1].iat # 0
    /\ pkToken.claims[1].workflow_ref # <<>>

\* C27: a build that got an identity token whose payload cannot be parsed, or
\* that lacks job_workflow_sha, iat or workflow_ref, ends at the extraction of
\* the claims with an error and no attestation, the output file as it was; one
\* whose token has all three gets past it, and every attestation it produces
\* has the timestamp derived from iat.
C27_ClaimExtraction ==
    (b # None /\ b[1].rev # "p6" /\ b[1].auth # None) =>
        IF HasRequiredClaims(b[1].auth[1])
        THEN /\ b[1].stage # "claims"
             /\ b[1].att # None =>
                   /\ b[1].att[1].pk_token = b[1].auth[1]
                   /\ b[1].att[1].payload.timestamp = RFC3339(b[1].auth[1].claims[1].iat)
        ELSE /\ b[1].stage = "claims"
             /\ b[1].att = None
             /\ b[1].exit = 1
             /\ fs_out \in {None, Some(PriorOutput)}

C27_Witness ==
    /\ b # None
    /\ b[1].rev = "cur"
    /\ b[1].auth # None
    /\ b[1].auth[1].claims # None
    /\ b[1].auth[1].claims[1].workflow_ref = <<>>
    /\ b[1].stage = "claims"
    /\ b[1].exit = 1
    /\ fs_out = Some(PriorOutput)

----------------------------------------------------------------------------
(* The digest comparisons depend on the signature. *)

HashErrors ==
    {"Attestation payload hash does not match signed message",
     "Program generated hash does not match signed message"}

\* C28: in every result of VerifyAttestation the payload-digest check and the
\* recomputation check are passed only if the signature check is: after a
\* failed signature verification both comparisons are recorded as failed, each
\* with its error.
C28_DigestChecksNeedSignature ==
    (v # None /\ v[1].result # None) =>
        /\ (v[1].result[1].PayloadHashVerified \/ v[1].result[1].ProgramHashVerified)
              => v[1].result[1].SignedMessageVerified
        /\ ~v[1].result[1].SignedMessageVerified =>
              /\ ~v[1].result[1].PayloadHashVerified
              /\ ~v[1].result[1].ProgramHashVerified
              /\ \A e \in HashErrors :
                    \E i \in 1..Len(v[1].result[1].Errors) : v[1].result[1].Errors[i] = e

C28_Witness ==
    /\ v # None
    /\ v[1].rev = "p6"
    /\ v[1].result # None
    /\ tampers = <<"signature">>
    /\ v[1].result[1].PKTokenVerified
    /\ ~v[1].result[1].SignedMessageVerified
    /\ ~v[1].result[1].PayloadHashVerified
    /\ ~v[1].result[1].ProgramHashVerified

----------------------------------------------------------------------------
(* Where the details of the previous link come from. *)

\* the script wrote previous_attestation_details.json in this call
ScriptWroteDetails(call) ==
    /\ ScriptLooksUp(call)
    /\ ScriptVerifies(call)
    /\ call.e.path \in {"verify_failed", "verify_ok"}

\* C29: details the linker of part_002 returns were written by the script in
\* the same call, and are those of the artifact it downloaded; a details file
\* an earlier run left in the working directory is never returned.
C29_DetailsOfThisRun ==
    (lk # None /\ lk[1].rev = "cur" /\ lk[1].found # None) =>
        /\ ScriptWroteDetails(lk[1])
        /\ lk[1].found[1].digest = lk[1].e.art.digest
        /\ lk[1].found # LoadAttestationDetails(Some(StaleDetails))

----------------------------------------------------------------------------
(* Only a verified previous attestation is linked to. *)

\* C30: an attestation built with chain linking carries a previous link only
\* when the script verified the downloaded previous attestation in that build:
\* after a failed verification the linker returns an error and the build aborts
\* with no attestation; after a skipped verification the attestation has no
\* link.
C30_LinksOnlyToVerified ==
    b # None =>
        /\ (b[1].att # None /\ b[1].att[1].payload.previous_attestation # None)
              => b[1].path = "verify_ok"
        /\ b[1].path = "verify_failed" =>
              /\ b[1].link = "error"
              /\ b[1].stage = "link"
              /\ b[1].att = None
              /\ b[1].exit # 0
        /\ (b[1].path = "commit_missing" /\ b[1].att # None)
              => b[1].att[1].payload.previous_attestation = None

====
